---- MODULE Spec2Model ----
(***************************************************************************)
(* Understory: generational AABB index with pluggable backends (flat,      *)
(* uniform grid, R-tree, BVH), the box tree layered on the flat index,     *)
(* and the responder router.  Scalars are modelled as integers (the i64    *)
(* instantiation; the f64 tree is driven with integral coordinates).       *)
(***************************************************************************)
EXTENDS Integers, Sequences, FiniteSets, TLC

(***************************************************************************)
(* Option<T>: None is the empty tuple, Some(v) the one-element tuple.      *)
(***************************************************************************)
None == <<>>
Some(v) == <<v>>
IsSome(o) == o # <<>>
IsNone(o) == o = <<>>
Unwrap(o) == o[1]

Range(s) == {s[i] : i \in 1..Len(s)}

RECURSIVE SeqFilterOut(_, _)
\* Vec::retain(|c| *c != v)
SeqFilterOut(s, v) ==
    IF s = <<>> THEN <<>>
    ELSE IF Head(s) = v THEN SeqFilterOut(Tail(s), v)
         ELSE <<Head(s)>> \o SeqFilterOut(Tail(s), v)

\* Vec::get on a 0-based index: the element, or None when out of range.
VecGet(v, i) == IF i >= 0 /\ i < Len(v) THEN Some(v[i + 1]) ELSE None

\* Vec::resize_with(n, || None) followed by v[slot] = x (0-based slot).
VecSetGrow(v, slot, x) ==
    LET n == IF Len(v) <= slot THEN slot + 1 ELSE Len(v)
    IN [i \in 1..n |-> IF i = slot + 1 THEN x
                       ELSE IF i <= Len(v) THEN v[i] ELSE None]

\* v[slot] = x when slot is in range, otherwise unchanged (get_mut).
VecSetIfPresent(v, slot, x) ==
    IF slot >= 0 /\ slot < Len(v) THEN [v EXCEPT ![slot + 1] = x] ELSE v

(***************************************************************************)
(* types.rs: Aabb2D and scalar helpers                                     *)
(***************************************************************************)
Aabb(x0, y0, x1, y1) == [min_x |-> x0, min_y |-> y0, max_x |-> x1, max_y |-> y1]

min_t(a, b) == IF a > b THEN b ELSE a
max_t(a, b) == IF a < b THEN b ELSE a

contains_point(a, x, y) ==
    a.min_x <= x /\ a.min_y <= y /\ x <= a.max_x /\ y <= a.max_y

intersect(a, b) ==
    Aabb(max_t(a.min_x, b.min_x), max_t(a.min_y, b.min_y),
         min_t(a.max_x, b.max_x), min_t(a.max_y, b.max_y))

is_empty(a) == a.max_x < a.min_x \/ a.max_y < a.min_y

union_aabb(a, b) ==
    Aabb(min_t(a.min_x, b.min_x), min_t(a.min_y, b.min_y),
         max_t(a.max_x, b.max_x), max_t(a.max_y, b.max_y))

max_zero(v) == IF v > 0 THEN v ELSE 0

\* i64 midpoint (a & b) + ((a ^ b) >> 1), i.e. floor((a + b) / 2)
mid(a, b) == (a + b) \div 2

area(a) == max_zero(a.max_x - a.min_x) * max_zero(a.max_y - a.min_y)

(***************************************************************************)
(* backends/flatvec.rs                                                     *)
(***************************************************************************)
FlatNew == [kind |-> "flat", entries |-> <<>>]

FlatInsert(b, slot, aabb) == [b EXCEPT !.entries = VecSetGrow(@, slot, Some(aabb))]

FlatUpdate(b, slot, aabb) == [b EXCEPT !.entries = VecSetIfPresent(@, slot, Some(aabb))]

FlatRemove(b, slot) == [b EXCEPT !.entries = VecSetIfPresent(@, slot, None)]

\* The yielded slots in iteration order (ascending slot).
RECURSIVE FlatScan(_, _, _)
FlatScan(entries, i, q) ==
    IF i > Len(entries) THEN <<>>
    ELSE (IF IsSome(entries[i]) /\ ~is_empty(intersect(Unwrap(entries[i]), q))
          THEN <<i - 1>> ELSE <<>>) \o FlatScan(entries, i + 1, q)

RECURSIVE FlatScanPoint(_, _, _, _)
FlatScanPoint(entries, i, x, y) ==
    IF i > Len(entries) THEN <<>>
    ELSE (IF IsSome(entries[i]) /\ contains_point(Unwrap(entries[i]), x, y)
          THEN <<i - 1>> ELSE <<>>) \o FlatScanPoint(entries, i + 1, x, y)

FlatQueryPoint(b, x, y) == FlatScanPoint(b.entries, 1, x, y)

FlatQueryRect(b, rect) == FlatScan(b.entries, 1, rect)

(***************************************************************************)
(* backends/grid.rs (GridI64)                                              *)
(***************************************************************************)
GridNew(cw, ch, ox, oy) ==
    [kind |-> "grid", cell_w |-> cw, cell_h |-> ch, origin_x |-> ox, origin_y |-> oy,
     entries |-> <<>>, cells |-> <<>>]

\* div_euclid with a positive divisor is floor division.
key_for(g, x, y) == <<(x - g.origin_x) \div g.cell_w, (y - g.origin_y) \div g.cell_h>>

RECURSIVE CellRow(_, _, _)
CellRow(x, maxx, y) == IF x > maxx THEN <<>> ELSE <<<<x, y>>>> \o CellRow(x + 1, maxx, y)

RECURSIVE CellRows(_, _, _, _)
CellRows(minx, maxx, y, maxy) ==
    IF y > maxy THEN <<>> ELSE CellRow(minx, maxx, y) \o CellRows(minx, maxx, y + 1, maxy)

cells_for_aabb(g, a) ==
    LET lo == key_for(g, a.min_x, a.min_y)
        hi == key_for(g, a.max_x, a.max_y)
    IN CellRows(lo[1], hi[1], lo[2], hi[2])

\* Position (1-based) of the cell with this key, 0 when absent.
FindCell(cells, key) ==
    IF \E i \in 1..Len(cells) : cells[i].cx = key[1] /\ cells[i].cy = key[2]
    THEN CHOOSE i \in 1..Len(cells) :
            /\ cells[i].cx = key[1] /\ cells[i].cy = key[2]
            /\ \A j \in 1..(i - 1) : ~(cells[j].cx = key[1] /\ cells[j].cy = key[2])
    ELSE 0

\* find_cell_mut followed by cells[idx].2.push(slot)
PushToCell(cells, key, slot) ==
    LET i == FindCell(cells, key)
    IN IF i = 0 THEN Append(cells, [cx |-> key[1], cy |-> key[2], slots |-> <<slot>>])
       ELSE [cells EXCEPT ![i].slots = Append(@, slot)]

RECURSIVE PushToCells(_, _, _)
PushToCells(cells, keys, slot) ==
    IF keys = <<>> THEN cells
    ELSE PushToCells(PushToCell(cells, Head(keys), slot), Tail(keys), slot)

\* Vec::swap_remove of the first position holding slot, if any.
SwapRemoveFirst(slots, slot) ==
    IF \E i \in 1..Len(slots) : slots[i] = slot
    THEN LET pos == CHOOSE i \in 1..Len(slots) :
                        slots[i] = slot /\ \A j \in 1..(i - 1) : slots[j] # slot
             n == Len(slots)
         IN [i \in 1..(n - 1) |-> IF i = pos THEN slots[n] ELSE slots[i]]
    ELSE slots

remove_from_cells(cells, slot) ==
    [i \in 1..Len(cells) |-> [cells[i] EXCEPT !.slots = SwapRemoveFirst(@, slot)]]

GridInsert(g, slot, aabb) ==
    [g EXCEPT !.entries = VecSetGrow(@, slot, Some(aabb)),
              !.cells = PushToCells(@, cells_for_aabb(g, aabb), slot)]

GridUpdate(g, slot, aabb) ==
    LET c1 == remove_from_cells(g.cells, slot)
    IN IF slot < Len(g.entries)
       THEN [g EXCEPT !.entries = VecSetIfPresent(@, slot, Some(aabb)),
                      !.cells = PushToCells(c1, cells_for_aabb(g, aabb), slot)]
       ELSE [g EXCEPT !.cells = c1]

GridRemove(g, slot) ==
    [g EXCEPT !.cells = remove_from_cells(@, slot),
              !.entries = VecSetIfPresent(@, slot, None)]

\* BTreeSet::into_iter(): the distinct slots in ascending order.
RECURSIVE SortedSeqOfSet(_)
SortedSeqOfSet(S) ==
    IF S = {} THEN <<>>
    ELSE LET m == CHOOSE x \in S : \A y \in S : x <= y
         IN <<m>> \o SortedSeqOfSet(S \ {m})

CellSlots(cells, key) ==
    LET i == FindCell(cells, key) IN IF i = 0 THEN {} ELSE Range(cells[i].slots)

GridQueryPoint(g, x, y) == SortedSeqOfSet(CellSlots(g.cells, key_for(g, x, y)))

GridQueryRect(g, rect) ==
    LET ks == cells_for_aabb(g, rect)
    IN SortedSeqOfSet(UNION {CellSlots(g.cells, ks[i]) : i \in 1..Len(ks)})


(***************************************************************************)
(* Shared by the R-tree and BVH splitters: slice::sort_by is stable        *)
(***************************************************************************)
RECURSIVE InsertSorted(_, _)
\* Insert the keyed element e after every element whose key is <= e.k.
InsertSorted(sorted, e) ==
    IF sorted = <<>> THEN <<e>>
    ELSE IF Head(sorted).k <= e.k THEN <<Head(sorted)>> \o InsertSorted(Tail(sorted), e)
         ELSE <<e>> \o sorted

RECURSIVE StableSortKeyed(_)
StableSortKeyed(s) ==
    IF s = <<>> THEN <<>>
    ELSE InsertSorted(StableSortKeyed(SubSeq(s, 1, Len(s) - 1)), s[Len(s)])

\* Sort boxed elements (records with a .bb field) by x- or y-centroid.
SortByCentroid(s, axis) ==
    LET keyed == [i \in 1..Len(s) |->
                    [k |-> IF axis = 0 THEN mid(s[i].bb.min_x, s[i].bb.max_x)
                                       ELSE mid(s[i].bb.min_y, s[i].bb.max_y),
                     v |-> s[i]]]
        sorted == StableSortKeyed(keyed)
    IN [i \in 1..Len(s) |-> sorted[i].v]

RECURSIVE PrefixBoxes(_, _)
\* prefix[i] = union of the boxes of v[1..i]
PrefixBoxes(v, i) ==
    IF i = 0 THEN <<>>
    ELSE IF i = 1 THEN <<v[1].bb>>
    ELSE LET p == PrefixBoxes(v, i - 1) IN Append(p, union_aabb(p[i - 1], v[i].bb))

RECURSIVE SuffixBox(_, _)
\* suffix[i] = union of the boxes of v[i..n]
SuffixBox(v, i) ==
    IF i = Len(v) THEN v[i].bb ELSE union_aabb(v[i].bb, SuffixBox(v, i + 1))

\* The candidate splits of one axis, k ascending, each with cost
\* area(LB_k) * k + area(RB_k) * (n - k); src is the sequence that gets sorted.
AxisCandidates(src, axis, minc) ==
    LET Costed(v, n, prefix) ==
            [j \in 1..(IF n - minc >= minc THEN n - 2 * minc + 1 ELSE 0) |->
                LET k == minc + j - 1
                IN [cost |-> area(prefix[k]) * k + area(SuffixBox(v, k + 1)) * (n - k),
                    left |-> SubSeq(v, 1, k), right |-> SubSeq(v, k + 1, n)]]
        Sorted(v) == Costed(v, Len(v), PrefixBoxes(v, Len(v)))
    IN Sorted(SortByCentroid(src, axis))

\* The first candidate of strictly minimal cost (`c < best` replaces).
BestSplit(cands) ==
    LET i == CHOOSE i \in 1..Len(cands) :
                /\ \A j \in 1..Len(cands) : cands[i].cost <= cands[j].cost
                /\ \A j \in 1..(i - 1) : cands[j].cost > cands[i].cost
    IN cands[i]


(***************************************************************************)
(* backends/rtree.rs                                                       *)
(***************************************************************************)
max_children == 8
min_children == 4

RTreeNew == [kind |-> "rtree", root |-> None, arena |-> <<>>, slots |-> <<>>,
             panicked |-> FALSE]

RItem(slot, bbox) == [tag |-> "Item", slot |-> slot, bbox |-> bbox]
RNodeRef(i) == [tag |-> "Node", idx |-> i]
RNode(bbox, leaf, children) == [bbox |-> bbox, leaf |-> leaf, children |-> children]

\* arena[i] for a 0-based NodeIdx
At(arena, i) == arena[i + 1]

RChildBox(arena, c) == IF c.tag = "Node" THEN At(arena, c.idx).bbox ELSE c.bbox

RECURSIVE FoldUnion(_, _, _)
FoldUnion(arena, children, acc) ==
    IF children = <<>> THEN acc
    ELSE FoldUnion(arena, Tail(children), union_aabb(acc, RChildBox(arena, Head(children))))

\* A node box that covers the first child only
FirstChildBox(arena, children) ==
    IF children = <<>> THEN Aabb(0, 0, 0, 0)
    ELSE RChildBox(arena, Head(children))

node_bbox(arena, children) ==
    IF children = <<>> THEN Aabb(0, 0, 0, 0)
    ELSE FoldUnion(arena, Tail(children), RChildBox(arena, Head(children)))

enlarge_cost(a, b) == area(union_aabb(a, b)) - area(a)

\* 0-based index of the first child of strictly minimal enlargement (0 when empty).
choose_child(arena, children, bbox) ==
    IF children = <<>> THEN 0
    ELSE LET cost(i) == enlarge_cost(RChildBox(arena, children[i]), bbox)
         IN (CHOOSE i \in 1..Len(children) :
                /\ \A j \in 1..Len(children) : cost(i) <= cost(j)
                /\ \A j \in 1..(i - 1) : cost(j) > cost(i)) - 1

\* Each axis sorts a fresh copy of the children (children.to_owned()).
split_children_with(arena, children) ==
    LET boxed == [i \in 1..Len(children) |->
                    [bb |-> RChildBox(arena, children[i]), c |-> children[i]]]
        Halves(best) == [left |-> [i \in 1..Len(best.left) |-> best.left[i].c],
                         right |-> [i \in 1..Len(best.right) |-> best.right[i].c]]
    IN Halves(BestSplit(AxisCandidates(boxed, 0, min_children)
                        \o AxisCandidates(boxed, 1, min_children)))

\* Vec::insert(pos, x) with a 0-based position
VecInsertAt(v, pos, x) == SubSeq(v, 1, pos) \o <<x>> \o SubSeq(v, pos + 1, Len(v))

\* Overflow handling common to leaf and internal nodes: keep the left half in
\* place, push the right half as a new arena node and report its index.
RSplitNode(arena, node_idx, children, leaf) ==
    LET Place(sp) ==
            [arena |-> Append([arena EXCEPT ![node_idx + 1] =
                                   RNode(node_bbox(arena, sp.left), leaf, sp.left)],
                              RNode(node_bbox(arena, sp.right), leaf, sp.right)),
             split |-> Some(Len(arena)), panic |-> FALSE]
    IN Place(split_children_with(arena, children))

RECURSIVE insert_node(_, _, _, _)
insert_node(arena, node_idx, slot, bbox) ==
    LET node == At(arena, node_idx)
        \* the node after its chosen child (at 0-based idx) took the item
        After(idx, r) ==
            IF r.panic THEN r
            ELSE LET a1 == [r.arena EXCEPT ![node_idx + 1].bbox = union_aabb(@, bbox)]
                     ch == VecInsertAt(node.children, idx + 1, RNodeRef(Unwrap(r.split)))
                 IN IF IsNone(r.split)
                    THEN [arena |-> a1, split |-> None, panic |-> FALSE]
                    ELSE IF Len(node.children) + 1 > max_children
                    THEN RSplitNode(a1, node_idx, ch, FALSE)
                    ELSE [arena |-> [a1 EXCEPT ![node_idx + 1].children = ch],
                          split |-> None, panic |-> FALSE]
        Descend(idx) ==
            IF idx >= Len(node.children)
            THEN \* arena[node_idx].children[idx]: index out of bounds
                 [arena |-> arena, split |-> None, panic |-> TRUE]
            ELSE IF node.children[idx + 1].tag = "Node"
            THEN After(idx, insert_node(arena, node.children[idx + 1].idx, slot, bbox))
            ELSE After(idx, [arena |-> arena, split |-> None, panic |-> FALSE])
    IN IF node.leaf
       THEN IF Len(node.children) + 1 <= max_children
            THEN [arena |-> [arena EXCEPT ![node_idx + 1] =
                                 RNode(union_aabb(node.bbox, bbox), TRUE,
                                       Append(node.children, RItem(slot, bbox)))],
                  split |-> None, panic |-> FALSE]
            ELSE RSplitNode(arena, node_idx, Append(node.children, RItem(slot, bbox)), TRUE)
       ELSE Descend(choose_child(arena, node.children, bbox))


RECURSIVE SeqSelectTag(_, _)
\* The NodeIdx values of the Node children, in order (filter_map).
SeqSelectTag(children, tag) ==
    IF children = <<>> THEN <<>>
    ELSE (IF Head(children).tag = tag THEN <<Head(children)>> ELSE <<>>)
         \o SeqSelectTag(Tail(children), tag)

RECURSIVE RetainOtherSlots(_, _)
\* children.retain(|c| match c { Item { slot: s, .. } => *s != slot, _ => true })
RetainOtherSlots(children, slot) ==
    IF children = <<>> THEN <<>>
    ELSE (IF Head(children).tag = "Item" /\ Head(children).slot = slot
          THEN <<>> ELSE <<Head(children)>>) \o RetainOtherSlots(Tail(children), slot)

RECURSIVE RetainNonEmptyNodes(_, _)
\* Drop Node children whose own child list is empty.
RetainNonEmptyNodes(arena, children) ==
    IF children = <<>> THEN <<>>
    ELSE (IF Head(children).tag = "Node" /\ At(arena, Head(children).idx).children = <<>>
          THEN <<>> ELSE <<Head(children)>>) \o RetainNonEmptyNodes(arena, Tail(children))

RECURSIVE search_remove(_, _, _, _)
RECURSIVE SearchRemoveEach(_, _, _, _, _)

\* The loop `for ci in child_indices { if search_remove(..) { removed = true } }`
SearchRemoveEach(arena, refs, slot, old, removed) ==
    LET Rest(r) == SearchRemoveEach(r.arena, Tail(refs), slot, old, removed \/ r.removed)
    IN IF refs = <<>> THEN [arena |-> arena, removed |-> removed]
       ELSE Rest(search_remove(arena, Head(refs).idx, slot, old))

search_remove(arena, node_idx, slot, old) ==
    LET node == At(arena, node_idx)
        Leaf(ch) ==
            IF Len(ch) # Len(node.children)
            THEN [arena |-> [arena EXCEPT ![node_idx + 1] =
                                 RNode(node_bbox(arena, ch), TRUE, ch)],
                  removed |-> TRUE]
            ELSE [arena |-> arena, removed |-> FALSE]
        Kept(a, ch) ==
            [arena |-> [a EXCEPT ![node_idx + 1] =
                            RNode(IF ch # <<>> THEN node_bbox(a, ch) ELSE node.bbox,
                                  FALSE, ch)],
             removed |-> TRUE]
        Internal(r) ==
            IF r.removed THEN Kept(r.arena, RetainNonEmptyNodes(r.arena, node.children))
            ELSE r
    IN IF is_empty(intersect(node.bbox, old))
       THEN [arena |-> arena, removed |-> FALSE]
       ELSE IF node.leaf
       THEN Leaf(RetainOtherSlots(node.children, slot))
       ELSE Internal(SearchRemoveEach(arena, SeqSelectTag(node.children, "Node"),
                                      slot, old, FALSE))

\* Rewrite the bbox of the first Item with this slot (the loop breaks at it).
RewriteFirstItem(children, slot, new) ==
    LET pos == CHOOSE i \in 1..Len(children) :
                  /\ children[i].tag = "Item" /\ children[i].slot = slot
                  /\ \A j \in 1..(i - 1) :
                        ~(children[j].tag = "Item" /\ children[j].slot = slot)
    IN [children EXCEPT ![pos].bbox = new]

RECURSIVE update_in_place(_, _, _, _, _)
RECURSIVE UpdateInPlaceFirst(_, _, _, _, _)

\* The loop over child_indices that breaks at the first successful child.
UpdateInPlaceFirst(arena, refs, slot, old, new) ==
    LET Rest(r) ==
            IF r.updated THEN r
            ELSE UpdateInPlaceFirst(r.arena, Tail(refs), slot, old, new)
    IN IF refs = <<>> THEN [arena |-> arena, updated |-> FALSE]
       ELSE Rest(update_in_place(arena, Head(refs).idx, slot, old, new))

update_in_place(arena, node_idx, slot, old, new) ==
    LET node == At(arena, node_idx)
        Leaf(ch) ==
            [arena |-> [arena EXCEPT ![node_idx + 1] =
                            RNode(node_bbox(arena, ch), TRUE, ch)],
             updated |-> TRUE]
        Internal(r) ==
            IF r.updated
            THEN [arena |-> [r.arena EXCEPT ![node_idx + 1].bbox =
                                 node_bbox(r.arena, node.children)],
                  updated |-> TRUE]
            ELSE r
    IN IF is_empty(intersect(node.bbox, union_aabb(old, new)))
       THEN [arena |-> arena, updated |-> FALSE]
       ELSE IF node.leaf
       THEN IF \E i \in 1..Len(node.children) :
                 node.children[i].tag = "Item" /\ node.children[i].slot = slot
            THEN Leaf(RewriteFirstItem(node.children, slot, new))
            ELSE [arena |-> arena, updated |-> FALSE]
       ELSE Internal(UpdateInPlaceFirst(arena, SeqSelectTag(node.children, "Node"),
                                        slot, old, new))

RTreeInsert(t, slot, aabb) ==
    LET slots1 == VecSetGrow(t.slots, slot, Some(aabb))
        root_idx == Unwrap(t.root)
        NewRoot(a, right_idx) ==
            Append(a, RNode(union_aabb(At(a, root_idx).bbox, At(a, right_idx).bbox),
                            FALSE, <<RNodeRef(root_idx), RNodeRef(right_idx)>>))
        Done(r) ==
            IF r.panic THEN [t EXCEPT !.slots = slots1, !.panicked = TRUE]
            ELSE IF IsSome(r.split)
            THEN [t EXCEPT !.slots = slots1,
                           !.arena = NewRoot(r.arena, Unwrap(r.split)),
                           !.root = Some(Len(r.arena))]
            ELSE [t EXCEPT !.slots = slots1, !.arena = r.arena]
    IN IF IsNone(t.root)
       THEN [t EXCEPT !.slots = slots1,
                      !.arena = Append(@, RNode(aabb, TRUE, <<RItem(slot, aabb)>>)),
                      !.root = Some(Len(t.arena))]
       ELSE Done(insert_node(t.arena, root_idx, slot, aabb))

\* slots.get(slot).and_then(|x| *x)
SlotBox(slots, slot) ==
    IF slot < Len(slots) THEN slots[slot + 1] ELSE None

RTreeUpdate(t, slot, aabb) ==
    LET old == SlotBox(t.slots, slot)
        InPlace(u) ==
            IF u.updated
            THEN [t EXCEPT !.arena = u.arena,
                           !.slots = VecSetIfPresent(@, slot, Some(aabb))]
            ELSE RTreeInsert([t EXCEPT !.arena =
                                 search_remove(@, Unwrap(t.root), slot, Unwrap(old)).arena],
                             slot, aabb)
    IN IF IsSome(old) /\ IsSome(t.root)
       THEN InPlace(update_in_place(t.arena, Unwrap(t.root), slot, Unwrap(old), aabb))
       ELSE RTreeInsert(t, slot, aabb)

RTreeRemove(t, slot) ==
    LET old == SlotBox(t.slots, slot)
    IN IF IsNone(old) THEN t
       ELSE IF IsSome(t.root)
       THEN [t EXCEPT !.arena = search_remove(@, Unwrap(t.root), slot, Unwrap(old)).arena,
                      !.slots = VecSetIfPresent(@, slot, None)]
       ELSE [t EXCEPT !.slots = VecSetIfPresent(@, slot, None)]

RECURSIVE LeafMatches(_, _)
\* The slots of the leaf items whose bbox intersects q, in child order.
LeafMatches(children, q) ==
    IF children = <<>> THEN <<>>
    ELSE (IF Head(children).tag = "Item" /\ ~is_empty(intersect(Head(children).bbox, q))
          THEN <<Head(children).slot>> ELSE <<>>) \o LeafMatches(Tail(children), q)

RECURSIVE RTreeWalk(_, _, _)
\* Depth-first traversal with an explicit stack (pop takes the last element).
RTreeWalk(arena, stack, q) ==
    IF stack = <<>> THEN <<>>
    ELSE LET i == stack[Len(stack)]
             rest == SubSeq(stack, 1, Len(stack) - 1)
             n == At(arena, i)
         IN IF is_empty(intersect(n.bbox, q)) THEN RTreeWalk(arena, rest, q)
            ELSE IF n.leaf THEN LeafMatches(n.children, q) \o RTreeWalk(arena, rest, q)
            ELSE LET refs == SeqSelectTag(n.children, "Node")
                 IN RTreeWalk(arena, rest \o [j \in 1..Len(refs) |-> refs[j].idx], q)

RTreeQueryRect(t, rect) ==
    IF IsNone(t.root) THEN <<>> ELSE RTreeWalk(t.arena, <<Unwrap(t.root)>>, rect)

RTreeQueryPoint(t, x, y) == RTreeQueryRect(t, Aabb(x, y, x, y))


(***************************************************************************)
(* backends/bvh.rs                                                         *)
(***************************************************************************)
max_leaf == 8

BVHNew == [kind |-> "bvh", root |-> None, arena |-> <<>>, slots |-> <<>>]

BItem(slot, bbox) == [slot |-> slot, bb |-> bbox]
BLeaf(bbox, items) == [bbox |-> bbox, leaf |-> TRUE, items |-> items]
BInternal(bbox, left, right) == [bbox |-> bbox, leaf |-> FALSE, left |-> left, right |-> right]

RECURSIVE FoldItems(_, _)
FoldItems(items, acc) ==
    IF items = <<>> THEN acc ELSE FoldItems(Tail(items), union_aabb(acc, Head(items).bb))

bbox_items(items) ==
    IF items = <<>> THEN Aabb(0, 0, 0, 0) ELSE FoldItems(Tail(items), Head(items).bb)

\* min(a, b) / max(a, b) on usize
UMin(a, b) == IF a < b THEN a ELSE b
UMax(a, b) == IF a > b THEN a ELSE b

\* The y-axis pass sorts the items already sorted by x (items is sorted in place).
split_sah(items) ==
    LET n == Len(items)
        minc == UMin(UMax(max_leaf \div 2, 2), IF n >= 2 THEN n - 2 ELSE 0)
    IN BestSplit(AxisCandidates(items, 0, minc)
                 \o AxisCandidates(SortByCentroid(items, 0), 1, minc))

RECURSIVE bvh_insert_node(_, _, _, _)
bvh_insert_node(arena, node_idx, slot, bbox) ==
    LET node == At(arena, node_idx)
        Split(sp, lb, rb) ==
            [arena EXCEPT ![node_idx + 1] =
                              BInternal(union_aabb(lb, rb), Len(arena), Len(arena) + 1)]
            \o <<BLeaf(lb, sp.left), BLeaf(rb, sp.right)>>
        Halves(sp) == Split(sp, bbox_items(sp.left), bbox_items(sp.right))
        Into(child) ==
            [bvh_insert_node(arena, child, slot, bbox)
                EXCEPT ![node_idx + 1].bbox = union_aabb(node.bbox, bbox)]
        Cheaper(lb, rb) ==
            IF area(union_aabb(lb, bbox)) - area(lb) <= area(union_aabb(rb, bbox)) - area(rb)
            THEN node.left ELSE node.right
    IN IF node.leaf
       THEN IF Len(node.items) + 1 > max_leaf
            THEN Halves(split_sah(Append(node.items, BItem(slot, bbox))))
            ELSE [arena EXCEPT ![node_idx + 1] =
                                   BLeaf(union_aabb(node.bbox, bbox),
                                         Append(node.items, BItem(slot, bbox)))]
       ELSE Into(Cheaper(At(arena, node.left).bbox, At(arena, node.right).bbox))

\* A retain that drops nothing: the removed slot's items stay in the leaf
RetainEveryItem(items, slot) == items

RECURSIVE RetainOtherItems(_, _)
\* items.retain(|(s, _)| *s != slot)
RetainOtherItems(items, slot) ==
    IF items = <<>> THEN <<>>
    ELSE (IF Head(items).slot = slot THEN <<>> ELSE <<Head(items)>>)
         \o RetainOtherItems(Tail(items), slot)

IsEmptyLeaf(n) == n.leaf /\ n.items = <<>>

RECURSIVE remove_node(_, _, _, _)
remove_node(arena, node_idx, slot, old) ==
    LET node == At(arena, node_idx)
        Leaf(items) ==
            [arena |-> [arena EXCEPT ![node_idx + 1] = BLeaf(bbox_items(items), items)],
             removed |-> Len(items) # Len(node.items)]
        Merge(a2, removed, l, r) ==
            IF removed /\ IsEmptyLeaf(l) /\ ~IsEmptyLeaf(r)
            THEN \* take the right child's kind and bbox; the child is left an empty leaf
                 [arena |-> [a2 EXCEPT ![node_idx + 1] = r,
                                       ![node.right + 1] = BLeaf(r.bbox, <<>>)],
                  removed |-> TRUE]
            ELSE IF removed /\ IsEmptyLeaf(r) /\ ~IsEmptyLeaf(l)
            THEN [arena |-> [a2 EXCEPT ![node_idx + 1] = l,
                                       ![node.left + 1] = BLeaf(l.bbox, <<>>)],
                  removed |-> TRUE]
            ELSE [arena |-> [a2 EXCEPT ![node_idx + 1].bbox = union_aabb(l.bbox, r.bbox)],
                  removed |-> removed]
        Right(r1, r2) ==
            Merge(r2.arena, r1.removed \/ r2.removed,
                  At(r2.arena, node.left), At(r2.arena, node.right))
        Left(r1) == Right(r1, remove_node(r1.arena, node.right, slot, old))
    IN IF is_empty(intersect(node.bbox, old))
       THEN [arena |-> arena, removed |-> FALSE]
       ELSE IF node.leaf
       THEN Leaf(RetainOtherItems(node.items, slot))
       ELSE Left(remove_node(arena, node.left, slot, old))

BVHInsert(t, slot, aabb) ==
    LET slots1 == VecSetGrow(t.slots, slot, Some(aabb))
    IN IF IsNone(t.root)
       THEN [t EXCEPT !.slots = slots1,
                      !.arena = Append(@, BLeaf(aabb, <<BItem(slot, aabb)>>)),
                      !.root = Some(Len(t.arena))]
       ELSE [t EXCEPT !.slots = slots1,
                      !.arena = bvh_insert_node(@, Unwrap(t.root), slot, aabb)]

BVHUpdate(t, slot, aabb) ==
    LET old == SlotBox(t.slots, slot)
    IN BVHInsert(IF IsSome(old) /\ IsSome(t.root)
                 THEN [t EXCEPT !.arena =
                          remove_node(@, Unwrap(t.root), slot, Unwrap(old)).arena]
                 ELSE t,
                 slot, aabb)

BVHRemove(t, slot) ==
    LET old == SlotBox(t.slots, slot)
    IN IF IsSome(old) /\ IsSome(t.root)
       THEN [t EXCEPT !.arena = remove_node(@, Unwrap(t.root), slot, Unwrap(old)).arena,
                      !.slots = VecSetIfPresent(@, slot, None)]
       ELSE t

RECURSIVE BLeafMatches(_, _)
BLeafMatches(items, q) ==
    IF items = <<>> THEN <<>>
    ELSE (IF ~is_empty(intersect(Head(items).bb, q)) THEN <<Head(items).slot>> ELSE <<>>)
         \o BLeafMatches(Tail(items), q)

RECURSIVE BVHWalk(_, _, _)
BVHWalk(arena, stack, q) ==
    IF stack = <<>> THEN <<>>
    ELSE LET i == stack[Len(stack)]
             rest == SubSeq(stack, 1, Len(stack) - 1)
             n == At(arena, i)
         IN IF is_empty(intersect(n.bbox, q)) THEN BVHWalk(arena, rest, q)
            ELSE IF n.leaf THEN BLeafMatches(n.items, q) \o BVHWalk(arena, rest, q)
            ELSE BVHWalk(arena, rest \o <<n.left, n.right>>, q)

BVHQueryRect(t, rect) ==
    IF IsNone(t.root) THEN <<>> ELSE BVHWalk(t.arena, <<Unwrap(t.root)>>, rect)

BVHQueryPoint(t, x, y) == BVHQueryRect(t, Aabb(x, y, x, y))


(***************************************************************************)
(* backend.rs: the Backend trait, dispatched on the backend in use         *)
(***************************************************************************)
BackendInsert(b, slot, aabb) ==
    CASE b.kind = "flat" -> FlatInsert(b, slot, aabb)
      [] b.kind = "grid" -> GridInsert(b, slot, aabb)
      [] b.kind = "rtree" -> RTreeInsert(b, slot, aabb)
      [] b.kind = "bvh" -> BVHInsert(b, slot, aabb)

BackendUpdate(b, slot, aabb) ==
    CASE b.kind = "flat" -> FlatUpdate(b, slot, aabb)
      [] b.kind = "grid" -> GridUpdate(b, slot, aabb)
      [] b.kind = "rtree" -> RTreeUpdate(b, slot, aabb)
      [] b.kind = "bvh" -> BVHUpdate(b, slot, aabb)

BackendRemove(b, slot) ==
    CASE b.kind = "flat" -> FlatRemove(b, slot)
      [] b.kind = "grid" -> GridRemove(b, slot)
      [] b.kind = "rtree" -> RTreeRemove(b, slot)
      [] b.kind = "bvh" -> BVHRemove(b, slot)

\* clear: every backend drops its slots and its structure
BackendClear(b) ==
    CASE b.kind = "flat" -> [b EXCEPT !.entries = <<>>]
      [] b.kind = "grid" -> [b EXCEPT !.entries = <<>>, !.cells = <<>>]
      [] b.kind = "rtree" -> [b EXCEPT !.root = None, !.arena = <<>>, !.slots = <<>>]
      [] b.kind = "bvh" -> [b EXCEPT !.root = None, !.arena = <<>>, !.slots = <<>>]

BackendQueryPoint(b, x, y) ==
    CASE b.kind = "flat" -> FlatQueryPoint(b, x, y)
      [] b.kind = "grid" -> GridQueryPoint(b, x, y)
      [] b.kind = "rtree" -> RTreeQueryPoint(b, x, y)
      [] b.kind = "bvh" -> BVHQueryPoint(b, x, y)

BackendQueryRect(b, rect) ==
    CASE b.kind = "flat" -> FlatQueryRect(b, rect)
      [] b.kind = "grid" -> GridQueryRect(b, rect)
      [] b.kind = "rtree" -> RTreeQueryRect(b, rect)
      [] b.kind = "bvh" -> BVHQueryRect(b, rect)

\* A backend call that panicked (only the R-tree has a panicking path).
BackendPanicked(b) == b.kind = "rtree" /\ b.panicked

(***************************************************************************)
(* index.rs: IndexGeneric                                                  *)
(***************************************************************************)
Key(idx, generation) == <<idx, generation>>

Entry(generation, aabb, payload, mark, prev_aabb) ==
    [generation |-> generation, aabb |-> aabb, payload |-> payload,
     mark |-> mark, prev_aabb |-> prev_aabb]

IndexNew(backend) ==
    [entries |-> <<>>, free_list |-> <<>>, backend |-> backend, panicked |-> FALSE]

NoDamage == [added |-> <<>>, removed |-> <<>>, moved |-> <<>>]

\* The generation given to an entry created in a slot popped from the free list.
ReuseGeneration(slotval) ==
    (IF IsSome(slotval) THEN Unwrap(slotval).generation ELSE 0) + 1

\* insert: returns the new index and the issued key.
IndexInsert(ix, aabb, payload) ==
    IF ix.free_list # <<>>
    THEN LET idx == ix.free_list[Len(ix.free_list)]
             generation == ReuseGeneration(ix.entries[idx + 1])
         IN [ix |-> [ix EXCEPT !.free_list = SubSeq(@, 1, Len(@) - 1),
                               !.entries[idx + 1] =
                                   Some(Entry(generation, aabb, payload, Some("Added"), None))],
             key |-> Key(idx, generation)]
    ELSE [ix |-> [ix EXCEPT !.entries =
                      Append(@, Some(Entry(1, aabb, payload, Some("Added"), None)))],
          key |-> Key(Len(ix.entries), 1)]

\* entry_mut(key).is_some()
IsLiveKey(ix, key) ==
    /\ key[1] < Len(ix.entries)
    /\ IsSome(ix.entries[key[1] + 1])
    /\ Unwrap(ix.entries[key[1] + 1]).generation = key[2]

\* An update that takes the old side of the pair from the entry as it is, an
\* intermediate update included
UpdateFromLastBox(ix, key, aabb) ==
    IF IsLiveKey(ix, key)
    THEN LET e == Unwrap(ix.entries[key[1] + 1])
             e1 == [e EXCEPT !.prev_aabb = IF e.mark = Some("Added") THEN @ ELSE Some(e.aabb),
                             !.aabb = aabb,
                             !.mark = IF e.mark = Some("Added")
                                      THEN Some("Added") ELSE Some("Updated")]
         IN [ix EXCEPT !.entries[key[1] + 1] = Some(e1)]
    ELSE ix

\* An update that marks every entry it touches Updated, one still Added too
UpdateMarkingUpdated(ix, key, aabb) ==
    IF IsLiveKey(ix, key)
    THEN LET e == Unwrap(ix.entries[key[1] + 1])
             e1 == [e EXCEPT !.prev_aabb = Some(e.aabb),
                             !.aabb = aabb,
                             !.mark = Some("Updated")]
         IN [ix EXCEPT !.entries[key[1] + 1] = Some(e1)]
    ELSE ix

\* An update that leaves an entry marked Removed as it is
UpdateUnlessRemoved(ix, key, aabb) ==
    IF IsLiveKey(ix, key) /\ Unwrap(ix.entries[key[1] + 1]).mark # Some("Removed")
    THEN LET e == Unwrap(ix.entries[key[1] + 1])
             e1 == [e EXCEPT !.prev_aabb = IF IsNone(e.mark) THEN Some(e.aabb) ELSE @,
                             !.aabb = aabb,
                             !.mark = IF e.mark = Some("Added")
                                      THEN Some("Added") ELSE Some("Updated")]
         IN [ix EXCEPT !.entries[key[1] + 1] = Some(e1)]
    ELSE ix

IndexUpdate(ix, key, aabb) ==
    IF IsLiveKey(ix, key)
    THEN LET e == Unwrap(ix.entries[key[1] + 1])
             e1 == [e EXCEPT !.prev_aabb = IF IsNone(e.mark) THEN Some(e.aabb) ELSE @,
                             !.aabb = aabb,
                             !.mark = IF e.mark = Some("Added")
                                      THEN Some("Added") ELSE Some("Updated")]
         IN [ix EXCEPT !.entries[key[1] + 1] = Some(e1)]
    ELSE ix

IndexRemove(ix, key) ==
    IF IsLiveKey(ix, key)
    THEN LET e == Unwrap(ix.entries[key[1] + 1])
         IN IF e.mark = Some("Added")
            THEN [ix EXCEPT !.entries[key[1] + 1] = None,
                            !.free_list = Append(@, key[1])]
            ELSE [ix EXCEPT !.entries[key[1] + 1] = Some([e EXCEPT !.mark = Some("Removed")])]
    ELSE ix

IndexClear(ix) ==
    [ix EXCEPT !.entries = <<>>, !.free_list = <<>>, !.backend = BackendClear(@)]

RECURSIVE CommitFrom(_, _, _)
\* The loop `for i in 0..self.entries.len()` from slot i on; a backend panic
\* unwinds out of commit.
CommitFrom(ix, i, dmg) ==
    LET e == Unwrap(ix.entries[i + 1])
        \* the entry and free list after the backend call, then the next slot
        Step(b, slotval, free, d) ==
            CommitFrom([ix EXCEPT !.backend = b, !.panicked = BackendPanicked(b),
                                  !.entries[i + 1] = slotval, !.free_list = free],
                       i + 1, d)
    IN IF ix.panicked \/ i >= Len(ix.entries) THEN [ix |-> ix, dmg |-> dmg]
       ELSE IF IsNone(ix.entries[i + 1]) THEN CommitFrom(ix, i + 1, dmg)
       ELSE CASE e.mark = Some("Added") ->
                   Step(BackendInsert(ix.backend, i, e.aabb),
                        Some([e EXCEPT !.mark = None]), ix.free_list,
                        [dmg EXCEPT !.added = Append(@, e.aabb)])
              [] e.mark = Some("Removed") ->
                   Step(BackendRemove(ix.backend, i), None, Append(ix.free_list, i),
                        [dmg EXCEPT !.removed = Append(@, e.aabb)])
              [] e.mark = Some("Updated") ->
                   Step(BackendUpdate(ix.backend, i, e.aabb),
                        Some([e EXCEPT !.mark = None, !.prev_aabb = None]), ix.free_list,
                        IF IsSome(e.prev_aabb) /\ Unwrap(e.prev_aabb) # e.aabb
                        THEN [dmg EXCEPT !.moved = Append(@, <<Unwrap(e.prev_aabb), e.aabb>>)]
                        ELSE dmg)
              [] OTHER -> CommitFrom(ix, i + 1, dmg)

IndexCommit(ix) == CommitFrom(ix, 0, NoDamage)

RECURSIVE KeyedResults(_, _)
\* Map the yielded slots to (Key, payload), dropping slots without an entry.
KeyedResults(ix, slots) ==
    IF slots = <<>> THEN <<>>
    ELSE LET i == Head(slots)
             o == VecGet(ix.entries, i)
         IN (IF IsSome(o) /\ IsSome(Unwrap(o))
             THEN <<[key |-> Key(i, Unwrap(Unwrap(o)).generation),
                     payload |-> Unwrap(Unwrap(o)).payload]>>
             ELSE <<>>) \o KeyedResults(ix, Tail(slots))

IndexQueryPoint(ix, x, y) == KeyedResults(ix, BackendQueryPoint(ix.backend, x, y))

IndexQueryRect(ix, rect) == KeyedResults(ix, BackendQueryRect(ix.backend, rect))

\* Damage::union
DamageUnion(dmg) ==
    LET flatMoved == [i \in 1..(2 * Len(dmg.moved)) |->
                         dmg.moved[(i + 1) \div 2][IF i % 2 = 1 THEN 1 ELSE 2]]
        all == dmg.added \o dmg.removed \o flatMoved
    IN IF all = <<>> THEN None
       ELSE LET rest == Tail(all)
            IN Some(FoldItems([i \in 1..Len(rest) |-> [bb |-> rest[i]]], all[1]))


(***************************************************************************)
(* understory_box_tree: kurbo geometry as the tree uses it.  A Rect is     *)
(* (x0, y0, x1, y1); an Affine is the coefficient array [a, b, c, d, e, f] *)
(* mapping (x, y) to (a x + c y + e, b x + d y + f).  A clip RoundedRect   *)
(* is modelled by its rect(), the only part the tree reads.                *)
(***************************************************************************)
Rect(x0, y0, x1, y1) == [x0 |-> x0, y0 |-> y0, x1 |-> x1, y1 |-> y1]

RectZERO == Rect(0, 0, 0, 0)

Affine(a, b, c, d, e, f) == <<a, b, c, d, e, f>>

IDENTITY == Affine(1, 0, 0, 1, 0, 0)

\* parent_tf * local_transform
AffineMul(p, l) ==
    Affine(p[1] * l[1] + p[3] * l[2], p[2] * l[1] + p[4] * l[2],
           p[1] * l[3] + p[3] * l[4], p[2] * l[3] + p[4] * l[4],
           p[1] * l[5] + p[3] * l[6] + p[5], p[2] * l[5] + p[4] * l[6] + p[6])

\* affine * Point
AffineApply(m, x, y) == <<m[1] * x + m[3] * y + m[5], m[2] * x + m[4] * y + m[6]>>

\* Affine::inverse for determinant 1 or -1, where 1 / det = det
AffineInverse(m) ==
    LET Scaled(det) ==
            Affine(det * m[4], -det * m[2], -det * m[3], det * m[1],
                   det * (m[3] * m[6] - m[4] * m[5]), det * (m[2] * m[5] - m[1] * m[6]))
    IN Scaled(m[1] * m[4] - m[2] * m[3])

\* Rect::contains: closed at the min edges, open at the max edges
RectContains(r, p) == p[1] >= r.x0 /\ p[1] < r.x1 /\ p[2] >= r.y0 /\ p[2] < r.y1

\* Rect::intersect: the overlap, clamped to zero size when there is none
RectIntersect(r, o) ==
    LET Clamped(x0, y0, x1, y1) == Rect(x0, y0, max_t(x1, x0), max_t(y1, y0))
    IN Clamped(max_t(r.x0, o.x0), max_t(r.y0, o.y0), min_t(r.x1, o.x1), min_t(r.y1, o.y1))

RectWidth(r) == r.x1 - r.x0
RectHeight(r) == r.y1 - r.y0

Min4(a, b, c, d) == min_t(min_t(min_t(a, b), c), d)
Max4(a, b, c, d) == max_t(max_t(max_t(a, b), c), d)

transform_rect_bbox(affine, rect) ==
    LET Hull(p0, p1, p2, p3) ==
            Rect(Min4(p0[1], p1[1], p2[1], p3[1]), Min4(p0[2], p1[2], p2[2], p3[2]),
                 Max4(p0[1], p1[1], p2[1], p3[1]), Max4(p0[2], p1[2], p2[2], p3[2]))
    IN Hull(AffineApply(affine, rect.x0, rect.y0), AffineApply(affine, rect.x1, rect.y0),
            AffineApply(affine, rect.x0, rect.y1), AffineApply(affine, rect.x1, rect.y1))

rect_to_aabb(r) == Aabb(r.x0, r.y0, r.x1, r.y1)

(***************************************************************************)
(* understory_box_tree types.rs and tree.rs: NodeId, LocalNode, Node, Tree *)
(* A NodeId is <<slot, generation>>.  The Dirty flags of a node are only   *)
(* ever written, never read, and are left out.  `failed` records how a     *)
(* call ended: "none", "panic" (an expect or index panic), or "overflow"   *)
(* (a recursion that never returns).                                       *)
(***************************************************************************)
VISIBLE == 1
PICKABLE == 2

NodeId(idx, generation) == <<idx, generation>>

\* NodeFlags::contains for a single-bit flag
FlagsContain(flags, bit) == (flags \div bit) % 2 = 1

LocalNode(bounds, tf, clip, z, flags) ==
    [local_bounds |-> bounds, local_transform |-> tf, local_clip |-> clip,
     z_index |-> z, flags |-> flags]

LocalNodeDefault == LocalNode(RectZERO, IDENTITY, None, 0, VISIBLE + PICKABLE)

NodeNew(generation, local) ==
    [generation |-> generation, parent |-> None, children |-> <<>>, local |-> local,
     world |-> [world_transform |-> IDENTITY, world_bounds |-> RectZERO,
                world_clip |-> None],
     index_key |-> None]

TreeNew ==
    [nodes |-> <<>>, generations |-> <<>>, free_list |-> <<>>,
     index |-> IndexNew(FlatNew), failed |-> "none"]

Fail(t, how) == [t EXCEPT !.failed = how]

\* self.nodes[id.idx()] is in range and holds a node
SlotFilled(t, id) == id[1] < Len(t.nodes) /\ IsSome(t.nodes[id[1] + 1])

\* node(id) / node_mut(id), where the slot is filled
NodeAt(t, id) == Unwrap(t.nodes[id[1] + 1])

SetNode(t, id, n) == [t EXCEPT !.nodes[id[1] + 1] = Some(n)]

is_alive(t, id) == SlotFilled(t, id) /\ NodeAt(t, id).generation = id[2]

link_parent(t, id, parent) ==
    LET Linked(t1) ==
            IF ~SlotFilled(t1, id) THEN Fail(t1, "panic")
            ELSE SetNode(t1, id, [NodeAt(t1, id) EXCEPT !.parent = Some(parent)])
    IN IF ~SlotFilled(t, parent) THEN Fail(t, "panic")
       ELSE Linked(SetNode(t, parent,
                           [NodeAt(t, parent) EXCEPT !.children = Append(@, id)]))

\* An unlink that clears the parent field and leaves the children list alone
UnlinkKeepingChild(t, id, parent) ==
    IF ~SlotFilled(t, parent) \/ ~SlotFilled(t, id) THEN Fail(t, "panic")
    ELSE SetNode(t, id, [NodeAt(t, id) EXCEPT !.parent = None])

unlink_parent(t, id, parent) ==
    LET Unlinked(t1) ==
            IF ~SlotFilled(t1, id) THEN Fail(t1, "panic")
            ELSE SetNode(t1, id, [NodeAt(t1, id) EXCEPT !.parent = None])
    IN IF ~SlotFilled(t, parent) THEN Fail(t, "panic")
       ELSE Unlinked(SetNode(t, parent,
                             [NodeAt(t, parent) EXCEPT !.children = SeqFilterOut(@, id)]))

\* u32::saturating_add(1); generations stay below MaxGen, far from u32::MAX,
\* where the addition would stick
SaturatingInc(g) == g + 1

\* An insert that starts a reused slot at generation 1 again
InsertRestartingGeneration(t, parent, local) ==
    LET Placed(t1, id) ==
            [tree |-> IF IsSome(parent) THEN link_parent(t1, id, Unwrap(parent)) ELSE t1,
             id |-> id]
    IN IF t.free_list # <<>>
       THEN Placed([t EXCEPT !.free_list = SubSeq(@, 1, Len(@) - 1),
                             !.nodes[t.free_list[Len(t.free_list)] + 1] =
                                 Some(NodeNew(1, local))],
                   NodeId(t.free_list[Len(t.free_list)], 1))
       ELSE Placed([t EXCEPT !.nodes = Append(@, Some(NodeNew(1, local))),
                             !.generations = Append(@, 1)],
                   NodeId(Len(t.nodes), 1))

\* insert: the tree after the call and the id it returns
TreeInsert(t, parent, local) ==
    LET Placed(t1, id) ==
            [tree |-> IF IsSome(parent) THEN link_parent(t1, id, Unwrap(parent)) ELSE t1,
             id |-> id]
        Reuse(idx, generation) ==
            Placed([t EXCEPT !.free_list = SubSeq(@, 1, Len(@) - 1),
                             !.generations[idx + 1] = generation,
                             !.nodes[idx + 1] = Some(NodeNew(generation, local))],
                   NodeId(idx, generation))
    IN IF t.free_list # <<>>
       THEN Reuse(t.free_list[Len(t.free_list)],
                  SaturatingInc(t.generations[t.free_list[Len(t.free_list)] + 1]))
       ELSE Placed([t EXCEPT !.nodes = Append(@, Some(NodeNew(1, local))),
                             !.generations = Append(@, 1)],
                   NodeId(Len(t.nodes), 1))

\* A remove that frees the node and leaves its children where they are
RemoveKeepingChildren(t, id, depth) ==
    LET Freed(t2) ==
            IF t2.failed # "none" THEN t2
            ELSE [t2 EXCEPT !.index = IF IsSome(NodeAt(t2, id).index_key)
                                       THEN IndexRemove(@, Unwrap(NodeAt(t2, id).index_key))
                                       ELSE @,
                            !.nodes[id[1] + 1] = None,
                            !.free_list = Append(@, id[1])]
    IN IF t.failed # "none" \/ ~is_alive(t, id) THEN t
       ELSE Freed(IF IsSome(NodeAt(t, id).parent)
                  THEN unlink_parent(t, id, Unwrap(NodeAt(t, id).parent))
                  ELSE t)

RECURSIVE TreeRemove(_, _, _)
RECURSIVE RemoveEach(_, _, _)
\* remove, with `depth` nested calls left before the call stack is exhausted
TreeRemove(t, id, depth) ==
    LET Freed(t2) ==
            IF t2.failed # "none" THEN t2
            ELSE IF ~SlotFilled(t2, id) THEN Fail(t2, "panic")
            ELSE [t2 EXCEPT !.index = IF IsSome(NodeAt(t2, id).index_key)
                                       THEN IndexRemove(@, Unwrap(NodeAt(t2, id).index_key))
                                       ELSE @,
                            !.nodes[id[1] + 1] = None,
                            !.free_list = Append(@, id[1])]
        Unlinked(t1) ==
            IF t1.failed # "none" THEN t1
            ELSE Freed(RemoveEach(t1, NodeAt(t1, id).children, depth - 1))
    IN IF t.failed # "none" \/ ~is_alive(t, id) THEN t
       ELSE IF depth = 0 THEN Fail(t, "overflow")
       ELSE Unlinked(IF IsSome(NodeAt(t, id).parent)
                     THEN unlink_parent(t, id, Unwrap(NodeAt(t, id).parent))
                     ELSE t)

\* for child in children { self.remove(child) }
RemoveEach(t, children, depth) ==
    IF children = <<>> \/ t.failed # "none" THEN t
    ELSE RemoveEach(TreeRemove(t, Head(children), depth), Tail(children), depth)

RECURSIVE mark_subtree_dirty(_, _, _)
\* Whether mark_subtree_dirty(id) returns.  It changes only Dirty flags; it
\* recurses through children without an end when a live node is its own
\* descendant, which `depth` nested live nodes on at most `depth` slots show.
mark_subtree_dirty(t, id, depth) ==
    IF ~is_alive(t, id) THEN TRUE
    ELSE IF depth = 0 THEN FALSE
    ELSE \A i \in 1..Len(NodeAt(t, id).children) :
            mark_subtree_dirty(t, NodeAt(t, id).children[i], depth - 1)

TreeReparent(t, id, new_parent) ==
    LET Marked(t2) ==
            IF t2.failed # "none" THEN t2
            ELSE IF mark_subtree_dirty(t2, id, Len(t2.nodes)) THEN t2
            ELSE Fail(t2, "overflow")
        Unlinked(t1) ==
            IF t1.failed # "none" THEN t1
            ELSE Marked(IF IsSome(new_parent)
                        THEN link_parent(t1, id, Unwrap(new_parent)) ELSE t1)
    IN IF ~is_alive(t, id) THEN t
       ELSE Unlinked(IF IsSome(NodeAt(t, id).parent)
                     THEN unlink_parent(t, id, Unwrap(NodeAt(t, id).parent))
                     ELSE t)

\* z_index accessor: None for an id that is not alive
z_index(t, id) == IF is_alive(t, id) THEN Some(NodeAt(t, id).local.z_index) ELSE None

\* node_opt_mut(id).is_some() is is_alive(id); each setter writes one field
set_local_transform(t, id, tf) ==
    IF is_alive(t, id)
    THEN SetNode(t, id, [NodeAt(t, id) EXCEPT !.local.local_transform = tf]) ELSE t

set_local_clip(t, id, clip) ==
    IF is_alive(t, id)
    THEN SetNode(t, id, [NodeAt(t, id) EXCEPT !.local.local_clip = clip]) ELSE t

set_z_index(t, id, z) ==
    IF is_alive(t, id)
    THEN SetNode(t, id, [NodeAt(t, id) EXCEPT !.local.z_index = z]) ELSE t

set_local_bounds(t, id, bounds) ==
    IF is_alive(t, id)
    THEN SetNode(t, id, [NodeAt(t, id) EXCEPT !.local.local_bounds = bounds]) ELSE t

set_flags(t, id, flags) ==
    IF is_alive(t, id)
    THEN SetNode(t, id, [NodeAt(t, id) EXCEPT !.local.flags = flags]) ELSE t

\* Damage that leaves out the bounds a changed node had before
BoundsDamageNewOnly(old_bounds, world_bounds) ==
    IF old_bounds = world_bounds THEN <<>>
    ELSE IF RectWidth(world_bounds) > 0 /\ RectHeight(world_bounds) > 0
         THEN <<world_bounds>> ELSE <<>>

\* Damage pushed for every visited node, changed or not
BoundsDamageAlways(old_bounds, world_bounds) == <<world_bounds>>

\* The rects update_world_recursive pushes for a node whose bounds changed
BoundsDamage(old_bounds, world_bounds) ==
    IF old_bounds = world_bounds THEN <<>>
    ELSE (IF RectWidth(old_bounds) > 0 /\ RectHeight(old_bounds) > 0
          THEN <<old_bounds>> ELSE <<>>)
         \o (IF RectWidth(world_bounds) > 0 /\ RectHeight(world_bounds) > 0
             THEN <<world_bounds>> ELSE <<>>)

RECURSIVE update_world_recursive(_, _, _, _, _, _)
RECURSIVE UpdateEach(_, _, _, _, _, _)
\* The tree and the damage after the call; `depth` as in TreeRemove.
update_world_recursive(t, id, parent_tf, parent_clip, damage, depth) ==
    LET node == NodeAt(t, id)
        Indexed(t1, wt, wclip, wb) ==
            UpdateEach(t1, node.children, wt, wclip,
                       damage \o BoundsDamage(node.world.world_bounds, wb), depth - 1)
        Stored(n1, wt, wclip, wb) ==
            IF IsSome(node.index_key)
            THEN Indexed([SetNode(t, id, n1) EXCEPT
                              !.index = IndexUpdate(@, Unwrap(node.index_key), rect_to_aabb(wb))],
                         wt, wclip, wb)
            ELSE LET Inserted(res) ==
                         Indexed([SetNode(t, id, [n1 EXCEPT !.index_key = Some(res.key)])
                                      EXCEPT !.index = res.ix],
                                 wt, wclip, wb)
                 IN Inserted(IndexInsert(t.index, rect_to_aabb(wb), id))
        Bounded(wt, wclip, wb) ==
            Stored([node EXCEPT !.world = [world_transform |-> wt, world_bounds |-> wb,
                                           world_clip |-> wclip]],
                   wt, wclip, wb)
        Clipped(wt, wclip) ==
            Bounded(wt, wclip,
                    IF IsSome(wclip)
                    THEN RectIntersect(transform_rect_bbox(wt, node.local.local_bounds),
                                       Unwrap(wclip))
                    ELSE transform_rect_bbox(wt, node.local.local_bounds))
        Placed(wt) ==
            Clipped(wt, IF IsSome(node.local.local_clip)
                        THEN Some(transform_rect_bbox(wt, Unwrap(node.local.local_clip)))
                        ELSE parent_clip)
    IN IF t.failed # "none" THEN [tree |-> t, dmg |-> damage]
       ELSE IF ~SlotFilled(t, id) THEN [tree |-> Fail(t, "panic"), dmg |-> damage]
       ELSE IF depth = 0 THEN [tree |-> Fail(t, "overflow"), dmg |-> damage]
       ELSE Placed(AffineMul(parent_tf, node.local.local_transform))

\* for child in child_ids { self.update_world_recursive(child, ...) }
UpdateEach(t, children, tf, clip, damage, depth) ==
    IF children = <<>> \/ t.failed # "none" THEN [tree |-> t, dmg |-> damage]
    ELSE LET Next1(r) == UpdateEach(r.tree, Tail(children), tf, clip, r.dmg, depth)
         IN Next1(update_world_recursive(t, Head(children), tf, clip, damage, depth))

RECURSIVE RootsFrom(_, _)
\* The ids of the filled slots without a parent, in slot order, from slot i on
RootsFrom(nodes, i) ==
    IF i >= Len(nodes) THEN <<>>
    ELSE (IF IsSome(nodes[i + 1]) /\ IsNone(Unwrap(nodes[i + 1]).parent)
          THEN <<NodeId(i, Unwrap(nodes[i + 1]).generation)>> ELSE <<>>)
         \o RootsFrom(nodes, i + 1)

\* commit: the tree after the call and the dirty_rects of the Damage returned
TreeCommit(t) ==
    LET Synced(t1, rects, res) ==
            [tree |-> [t1 EXCEPT !.index = res.ix],
             dmg |-> IF IsSome(DamageUnion(res.dmg))
                     THEN Append(rects, Rect(Unwrap(DamageUnion(res.dmg)).min_x,
                                             Unwrap(DamageUnion(res.dmg)).min_y,
                                             Unwrap(DamageUnion(res.dmg)).max_x,
                                             Unwrap(DamageUnion(res.dmg)).max_y))
                     ELSE rects]
        Walked(r) ==
            IF r.tree.failed # "none" THEN r
            ELSE Synced(r.tree, r.dmg, IndexCommit(r.tree.index))
    IN Walked(UpdateEach(t, RootsFrom(t.nodes, 0), IDENTITY, None, <<>>, Len(t.nodes)))

id_is_newer(a, b) == a[2] > b[2] \/ (a[2] = b[2] /\ a[1] > b[1])

RECURSIVE PathNodeFirst(_, _, _)
\* The walk of path_to_root without the final reverse(): the node first
PathNodeFirst(t, id, out) ==
    IF ~SlotFilled(t, id) THEN [kind |-> "panic", path |-> out]
    ELSE IF id \in Range(out) THEN [kind |-> "hang", path |-> out]
    ELSE IF IsSome(NodeAt(t, id).parent)
    THEN PathNodeFirst(t, Unwrap(NodeAt(t, id).parent), out \o <<id>>)
    ELSE [kind |-> "ok", path |-> out \o <<id>>]

RECURSIVE path_to_root(_, _, _)
\* The path from the root to `id`; the call ends in "panic" when a parent
\* slot is empty and in "hang" when the walk comes back to an id it has been
\* at (the loop has no other state, so it then never ends).
path_to_root(t, id, out) ==
    IF ~SlotFilled(t, id) THEN [kind |-> "panic", path |-> out]
    ELSE IF id \in Range(out) THEN [kind |-> "hang", path |-> out]
    ELSE IF IsSome(NodeAt(t, id).parent)
    THEN path_to_root(t, Unwrap(NodeAt(t, id).parent), <<id>> \o out)
    ELSE [kind |-> "ok", path |-> <<id>> \o out]

QueryFilter(visible_only, pickable_only) ==
    [visible_only |-> visible_only, pickable_only |-> pickable_only]

\* Whether the candidate loop of hit_test_point keeps the node (no `continue`)
HitCandidate(node, pt, filter) ==
    /\ ~(filter.visible_only /\ ~FlagsContain(node.local.flags, VISIBLE))
    /\ ~(filter.pickable_only /\ ~FlagsContain(node.local.flags, PICKABLE))
    /\ IsSome(node.local.local_clip) =>
          LET Local(p) == RectContains(Unwrap(node.local.local_clip), p)
          IN Local(AffineApply(AffineInverse(node.world.world_transform), pt[1], pt[2]))

RECURSIVE BestOf(_, _, _, _, _)
\* The loop over the candidates; best is None or Some(<<id, z>>)
BestOf(t, cands, pt, filter, best) ==
    IF cands = <<>> THEN best
    ELSE LET id == Head(cands).payload
             node == Unwrap(t.nodes[id[1] + 1])
             Rest(b) == BestOf(t, Tail(cands), pt, filter, b)
         IN IF IsNone(t.nodes[id[1] + 1]) THEN Rest(best)
            ELSE IF ~HitCandidate(node, pt, filter) THEN Rest(best)
            ELSE IF IsNone(best) THEN Rest(Some(<<id, node.local.z_index>>))
            ELSE IF node.local.z_index > Unwrap(best)[2]
                    \/ (node.local.z_index = Unwrap(best)[2]
                        /\ id_is_newer(id, Unwrap(best)[1]))
            THEN Rest(Some(<<id, node.local.z_index>>))
            ELSE Rest(best)

\* hit_test_point: kind "none" for None, "hit" for Some(Hit { node, path }),
\* "panic" or "hang" when the call does not return
hit_test_point(t, pt, filter) ==
    LET Found(best) ==
            IF IsNone(best) THEN [kind |-> "none"]
            ELSE LET Hit(r) ==
                         IF r.kind = "ok"
                         THEN [kind |-> "hit", node |-> Unwrap(best)[1], path |-> r.path]
                         ELSE [kind |-> r.kind]
                 IN Hit(path_to_root(t, Unwrap(best)[1], <<>>))
    IN Found(BestOf(t, IndexQueryPoint(t.index, pt[1], pt[2]), pt, filter, None))

RECURSIVE KeepVisible(_, _, _)
KeepVisible(t, cands, filter) ==
    IF cands = <<>> THEN <<>>
    ELSE LET id == Head(cands).payload
         IN (IF IsSome(t.nodes[id[1] + 1])
                /\ ~(filter.visible_only
                     /\ ~FlagsContain(Unwrap(t.nodes[id[1] + 1]).local.flags, VISIBLE))
             THEN <<id>> ELSE <<>>) \o KeepVisible(t, Tail(cands), filter)

\* intersect_rect: the ids yielded, in order
intersect_rect(t, rect, filter) ==
    KeepVisible(t, IndexQueryRect(t.index, rect_to_aabb(rect)), filter)

(***************************************************************************)
(* understory_responder types.rs and router.rs.  Nodes (K) are small       *)
(* integers; a hit's meta (M) is a value that tells hits apart; a distance *)
(* is a number (never NaN).  Localizer has no fields and is left out of    *)
(* the Dispatch record.  The scope predicate fn(&K) -> bool is the set of  *)
(* nodes it accepts.  Orderings are "Less", "Equal", "Greater".            *)
(***************************************************************************)
Z(v) == [kind |-> "Z", v |-> v]
Distance(v) == [kind |-> "Distance", v |-> v]

\* Ord::cmp on numbers
NumCmp(a, b) == IF a < b THEN "Less" ELSE IF a > b THEN "Greater" ELSE "Equal"

\* Ordering::reverse
OrdReverse(o) == IF o = "Less" THEN "Greater" ELSE IF o = "Greater" THEN "Less" ELSE o

\* impl Ord for DepthKey
DepthKeyCmp(a, b) ==
    IF a.kind = "Z" /\ b.kind = "Z" THEN NumCmp(a.v, b.v)
    ELSE IF a.kind = "Distance" /\ b.kind = "Distance" THEN NumCmp(b.v, a.v)
    ELSE IF a.kind = "Z" THEN "Greater"
    ELSE "Less"

ResolvedHit(node, path, depth_key, meta) ==
    [node |-> node, path |-> path, depth_key |-> depth_key, meta |-> meta]

Dispatch(phase, node, widget, meta) ==
    [phase |-> phase, node |-> node, widget |-> widget, meta |-> meta]

\* The WidgetLookup the router is built with: every node is its own widget
widget_of(node) == Some(node)

\* The ParentLookup the router is built with: each node's parent is the node
\* numbered one less, node 1 is the root
parent_of(node) == IF node > 1 THEN Some(node - 1) ELSE None

\* impl ParentLookup<K> for NoParent
NoParent(node) == None

\* The parent lookup a router holds: "Chain" for the lookup above, "NoParent"
\* for the default one
ParentOf(lookup, node) == IF lookup = "NoParent" THEN NoParent(node) ELSE parent_of(node)

\* Router::with_parent, given the chain lookup
RouterNew ==
    [default_tie_break |-> "Newer", scope |-> None, capture |-> None, parent |-> "Chain"]

\* Router::new: the parent lookup is P::default(), NoParent
RouterPlain == [RouterNew EXCEPT !.parent = "NoParent"]

set_default_tie_break(r, p) == [r EXCEPT !.default_tie_break = p]

set_scope(r, scope) == [r EXCEPT !.scope = scope]

capture(r, node) == [r EXCEPT !.capture = node]

\* Router::id_is_newer: K carries no generation, so never
router_id_is_newer(a, b) == FALSE

id_cmp(a, b) == "Equal"

\* A policy under which the earlier of two equally deep hits is kept
TiebreakFirstWins(r, a, b) == "Greater"

tiebreak(r, a, b) ==
    CASE r.default_tie_break = "Newer" ->
            IF router_id_is_newer(a, b) THEN "Greater"
            ELSE IF router_id_is_newer(b, a) THEN "Less" ELSE "Equal"
      [] r.default_tie_break = "Older" ->
            IF router_id_is_newer(b, a) THEN "Greater"
            ELSE IF router_id_is_newer(a, b) THEN "Less" ELSE "Equal"
      [] r.default_tie_break = "MinId" -> OrdReverse(id_cmp(a, b))
      [] r.default_tie_break = "MaxId" -> id_cmp(a, b)

make_dispatch(phase, node, meta) == Dispatch(phase, node, widget_of(node), meta)

RECURSIVE ReconstructTargetFirst(_, _, _)
\* The loop of reconstruct_path without the final reverse()
ReconstructTargetFirst(lookup, cur, out) ==
    IF IsSome(ParentOf(lookup, cur))
    THEN ReconstructTargetFirst(lookup, Unwrap(ParentOf(lookup, cur)), out \o <<cur>>)
    ELSE out \o <<cur>>

RECURSIVE reconstruct_path(_, _, _)
\* The loop from `cur` up to the root, `out` already reversed
reconstruct_path(lookup, cur, out) ==
    IF IsSome(ParentOf(lookup, cur))
    THEN reconstruct_path(lookup, Unwrap(ParentOf(lookup, cur)), <<cur>> \o out)
    ELSE <<cur>> \o out

SeqReverse(s) == [i \in 1..Len(s) |-> s[Len(s) + 1 - i]]

\* A bubble phase that walks the path from the root to the target
BubbleForward(path, meta) ==
    [i \in 1..Len(path) |-> make_dispatch("Bubble", path[i], meta)]

\* for &n in path.iter().rev() { out.push(Bubble ...) }
BubblePhase(path, meta) ==
    [i \in 1..Len(path) |-> make_dispatch("Bubble", SeqReverse(path)[i], meta)]

\* emit_path: kind "ok" with the dispatch sequence, or "panic" when the path
\* is empty (path.last().unwrap())
emit_path(path, meta) ==
    IF path = <<>> THEN [kind |-> "panic", out |-> <<>>]
    ELSE [kind |-> "ok",
          out |-> [i \in 1..Len(path) |-> make_dispatch("Capture", path[i], meta)]
                  \o <<make_dispatch("Target", path[Len(path)], meta)>>
                  \o BubblePhase(path, meta)]

\* A search that prefers the first hit for the captured node
FirstHitFor(hits, cap, i) ==
    IF \A j \in 1..i : hits[j].node # cap THEN 0
    ELSE CHOOSE j \in 1..i : hits[j].node = cap /\ \A k \in 1..(j - 1) : hits[k].node # cap

RECURSIVE LastHitFor(_, _, _)
\* hits.iter().rev().find(|h| h.node == cap): the 1-based position, 0 if none
LastHitFor(hits, cap, i) ==
    IF i = 0 THEN 0
    ELSE IF hits[i].node = cap THEN i
    ELSE LastHitFor(hits, cap, i - 1)

\* The capture branch of handle_with_hits
RouteCaptured(r, hits) ==
    LET Routed(i) ==
            IF i = 0 THEN emit_path(reconstruct_path(r.parent, Unwrap(r.capture), <<>>), None)
            ELSE IF IsSome(hits[i].path)
            THEN emit_path(Unwrap(hits[i].path), Some(hits[i].meta))
            ELSE emit_path(reconstruct_path(r.parent, Unwrap(r.capture), <<>>), Some(hits[i].meta))
    IN Routed(LastHitFor(hits, Unwrap(r.capture), Len(hits)))

RECURSIVE BestIdxUnscoped(_, _, _, _)
\* A selection loop that never asks the scope predicate
BestIdxUnscoped(r, hits, i, best) ==
    IF i > Len(hits) THEN best
    ELSE IF best = 0 THEN BestIdxUnscoped(r, hits, i + 1, i)
    ELSE LET Better(c) ==
                 IF c = "Less" THEN TRUE
                 ELSE IF c = "Greater" THEN FALSE
                 ELSE tiebreak(r, hits[best].node, hits[i].node) # "Greater"
         IN BestIdxUnscoped(r, hits, i + 1,
                            IF Better(DepthKeyCmp(hits[best].depth_key, hits[i].depth_key))
                            THEN i ELSE best)

RECURSIVE BestIdx(_, _, _, _)
\* The selection loop from position i on; best is 0 (None) or a position
BestIdx(r, hits, i, best) ==
    IF i > Len(hits) THEN best
    ELSE IF IsSome(r.scope) /\ hits[i].node \notin Unwrap(r.scope)
    THEN BestIdx(r, hits, i + 1, best)
    ELSE IF best = 0 THEN BestIdx(r, hits, i + 1, i)
    ELSE LET Better(c) ==
                 IF c = "Less" THEN TRUE
                 ELSE IF c = "Greater" THEN FALSE
                 ELSE tiebreak(r, hits[best].node, hits[i].node) # "Greater"
         IN BestIdx(r, hits, i + 1,
                    IF Better(DepthKeyCmp(hits[best].depth_key, hits[i].depth_key))
                    THEN i ELSE best)

\* handle_with_hits without a capture
RouteByDepth(r, hits) ==
    LET Routed(i) ==
            IF i = 0 THEN [kind |-> "ok", out |-> <<>>]
            ELSE emit_path(IF IsSome(hits[i].path) THEN Unwrap(hits[i].path)
                           ELSE reconstruct_path(r.parent, hits[i].node, <<>>),
                           Some(hits[i].meta))
    IN Routed(BestIdx(r, hits, 1, 0))

\* No handle_with_hits call has been made since the router was last set up
RouterIdle == [kind |-> "idle", out |-> <<>>]

\* A handle_with_hits that never looks at the capture
HandleIgnoringCapture(r, hits) == RouteByDepth(r, hits)

handle_with_hits(r, hits) ==
    IF IsSome(r.capture) THEN RouteCaptured(r, hits) ELSE RouteByDepth(r, hits)

(***************************************************************************)
(* understory_responder hover.rs: HoverState                               *)
(***************************************************************************)
Enter(k) == [kind |-> "Enter", node |-> k]
Leave(k) == [kind |-> "Leave", node |-> k]

HoverNew == [current |-> <<>>]

current_path(h) == h.current

RECURSIVE CommonPrefix(_, _, _)
\* while lca < current.len() && lca < new_path.len()
\*       && current[lca] == new_path[lca] { lca += 1 }
CommonPrefix(current, new_path, lca) ==
    IF lca < Len(current) /\ lca < Len(new_path) /\ current[lca + 1] = new_path[lca + 1]
    THEN CommonPrefix(current, new_path, lca + 1)
    ELSE lca

\* Leave events for current[lca..] pushed from the outer-most node inwards
LeavesOuterFirst(current, lca) ==
    [i \in 1..(Len(current) - lca) |-> Leave(current[lca + i])]

\* for &k in self.current[lca..].iter().rev() { out.push(Leave(k)) }
LeavesFrom(current, lca) ==
    [i \in 1..(Len(current) - lca) |-> Leave(current[Len(current) + 1 - i])]

\* for &k in &new_path[lca..] { out.push(Enter(k)) }
EntersFrom(new_path, lca) ==
    [i \in 1..(Len(new_path) - lca) |-> Enter(new_path[lca + i])]

\* A clear that empties the path and returns Leave for the innermost node only
ClearInnermostOnly(h) ==
    [h |-> [h EXCEPT !.current = <<>>],
     out |-> IF h.current = <<>> THEN <<>> ELSE <<Leave(h.current[Len(h.current)])>>]

\* A clear that returns the leave events and keeps the path
ClearKeepingPath(h) == [h |-> h, out |-> LeavesFrom(h.current, 0)]

\* clear: the new state and the returned events
hover_clear(h) == [h |-> [h EXCEPT !.current = <<>>], out |-> LeavesFrom(h.current, 0)]

\* update_path: the new state and the returned events
update_path(h, new_path) ==
    LET lca == CommonPrefix(h.current, new_path, 0)
    IN [h |-> [h EXCEPT !.current = new_path],
        out |-> LeavesFrom(h.current, lca) \o EntersFrom(new_path, lca)]

(***************************************************************************)
(* State.  One index per backend receives the same call sequence; `keys`   *)
(* are the handles the caller holds, `freed` the handles whose slot has    *)
(* been freed since they were issued, `dmg` the Damage of the last commit, *)
(* `ops` the number of calls spent from a workload's call budget.          *)
(* `tree` is the box tree, `ids` the NodeIds its caller has been given,    *)
(* `commits` the number of commits that returned since the last other call *)
(* (counted up to 2), `tdmg` the dirty_rects of the last commit.           *)
(* `router` is the responder router, `rin` the hits of the handle_with_hits *)
(* call just made and `rout` what it returned; a call of a setter leaves   *)
(* `rin` empty and `rout` of kind "idle".                                  *)
(***************************************************************************)
VARIABLES idx, keys, freed, dmg, ops, tree, ids, commits, tdmg, router, rin, rout,
          hist, dropped, retired, hover, hin, hout, replay

idxVars == <<idx, keys, freed, dmg, hist, dropped, retired>>
treeVars == <<tree, ids, commits, tdmg>>
routerVars == <<router, rin, rout>>
hoverVars == <<hover, hin, hout, replay>>
respVars == <<routerVars, hoverVars>>
vars == <<idx, keys, freed, dmg, ops, tree, ids, commits, tdmg, router, rin, rout,
          hist, dropped, retired, hover, hin, hout, replay>>

\* Bounds of the small index workloads
MaxSlots == 2
GridCell == 2
MaxStale == 1

\* Bounds of the tree workloads: entries inserted first, then a call budget
FillCount == 9
HotSlots == 4
MaxOps == 4

\* Two proper boxes that share a grid cell, and an inverted (empty) box
Boxes == {Aabb(0, 0, 1, 1), Aabb(1, 1, 3, 2), Aabb(2, 2, 1, 1)}
Payloads == {10, 20}
QPoints == {<<0, 0>>, <<1, 1>>, <<3, 0>>, <<3, 2>>, <<2, 0>>}
QRects == {Aabb(0, 0, 3, 3), Aabb(2, 0, 3, 1), Aabb(0, 2, 0, 3), Aabb(2, 2, 1, 1)}

\* Two proper boxes for the batching workload
BatchBoxes == {Aabb(0, 0, 1, 1), Aabb(1, 1, 3, 2)}

\* A row of unit boxes two apart, the entries a tree workload starts from
FillBox(i) == Aabb(2 * i, 0, 2 * i + 1, 1)
FillBoxes == [i \in 1..FillCount |-> FillBox(i - 1)]
ChurnBoxes == {Aabb(9, 0, 12, 1), Aabb(2, 2, 1, 1)}
BigQPoints == {<<2 * i, 0>> : i \in {0, 3, 5, 6, FillCount - 1}} \cup {<<1, 1>>, <<11, 1>>}
BigQRects == {Aabb(0, 0, 2 * FillCount, 1), Aabb(0, 0, 4, 0), Aabb(7, 1, 30, 5)}

\* A workload: the backends driven in lockstep, the boxes inserted first,
\* the inputs of later calls, the slot bound, the slots whose keys the caller
\* updates and removes, and the call budget (0: none).
Workload(kinds, fill, boxes, payloads, slots, hot, budget, track) ==
    [kinds |-> kinds, fill |-> fill, boxes |-> boxes, payloads |-> payloads,
     slots |-> slots, hot |-> hot, budget |-> budget, track |-> track]

WFlat == Workload({"flat"}, <<>>, Boxes, Payloads, MaxSlots, MaxSlots, 0, FALSE)
WGrid == Workload({"flat", "grid"}, <<>>, Boxes, {10}, MaxSlots, MaxSlots, 0, FALSE)
WRTree == Workload({"flat", "rtree"}, <<>>, Boxes, {10}, MaxSlots, MaxSlots, 0, FALSE)
WBVH == Workload({"flat", "bvh"}, FillBoxes, ChurnBoxes, {10}, FillCount, HotSlots, MaxOps, FALSE)
\* One index over each of the four backends, given the same calls
CoverOps == 3
WCover ==
    Workload({"flat", "grid", "rtree", "bvh"}, FillBoxes, ChurnBoxes, {10}, FillCount, HotSlots,
             CoverOps, FALSE)
\* One index over each backend, with a box that is inverted inside one grid cell
EmptyBoxes == {Aabb(0, 0, 1, 1), Aabb(1, 1, 0, 0)}
WEmpty ==
    Workload({"flat", "grid", "rtree", "bvh"}, <<>>, EmptyBoxes, {10}, MaxSlots, MaxSlots, 0, FALSE)
\* An R-tree that is filled until its root splits and then emptied, lowest
\* slot first
DrainOps == 10
WDrain ==
    Workload({"flat", "rtree"}, FillBoxes, {Aabb(0, 0, 1, 1)}, {10}, FillCount, 0, DrainOps, FALSE)
\* The flat index with the history of each batch kept
WBatch == Workload({"flat"}, <<>>, BatchBoxes, {10}, MaxSlots, MaxSlots, 0, TRUE)

\* What the calls of the current batch did to the entry in a slot: `born` tells
\* whether the entry was there at the last commit ("committed") or was inserted
\* since ("batch"); `upd` and `rem` whether update and remove were called on
\* its key; `last` the last call on its key; `box` the AABB of the insert or
\* of the last update; `at` the AABB the entry had at the last commit; `was`
\* the history the slot had in the batch that the last call, a commit, closed.
NoPast == [born |-> "none", upd |-> FALSE, rem |-> FALSE, last |-> "none", box |-> None]
HistNone ==
    [born |-> "none", upd |-> FALSE, rem |-> FALSE, last |-> "none", box |-> None, at |-> None,
     was |-> NoPast]
\* What a commit keeps of the history of the batch it closes
Past(h) == [born |-> h.born, upd |-> h.upd, rem |-> h.rem, last |-> h.last, box |-> h.box]
\* A call other than commit forgets the closed batch.
Forget(h) == [i \in DOMAIN h |-> [h[i] EXCEPT !.was = NoPast]]
HistBorn(a) == [HistNone EXCEPT !.born = "batch", !.last = "insert", !.box = Some(a)]
HistCommitted == [HistNone EXCEPT !.born = "committed"]

\* The per-slot history is kept in the workloads that ask for it.
Tracked(W) == W.track

\* No hover call made yet; the replay of the emitted events on a stack
HoverIdle == [op |-> "new", cur |-> <<>>, new |-> <<>>]
ReplayNew == [stack |-> <<>>, ok |-> TRUE]

NewBackend(k) ==
    CASE k = "flat" -> FlatNew
      [] k = "grid" -> GridNew(GridCell, GridCell, 0, 0)
      [] k = "rtree" -> RTreeNew
      [] k = "bvh" -> BVHNew

IdxInit(W) ==
    /\ idx = [k \in W.kinds |-> IndexNew(NewBackend(k))]
    /\ keys = {}
    /\ freed = {}
    /\ dmg = NoDamage
    /\ ops = 0
    /\ hist = [i \in 0..(W.slots - 1) |-> HistNone]
    /\ dropped = {}
    /\ retired = {}
    /\ hover = HoverNew
    /\ hin = HoverIdle
    /\ hout = <<>>
    /\ replay = ReplayNew
    /\ tree = TreeNew
    /\ ids = {}
    /\ commits = 0
    /\ tdmg = <<>>
    /\ router = RouterNew
    /\ rin = <<>>
    /\ rout = RouterIdle

\* Keys that were live before the step and whose slot holds no entry after it.
NewlyFreed(old, new) ==
    {k \in keys : IsLiveKey(old, k) /\ IsNone(new.entries[k[1] + 1])}

\* Items a tree backend stores, over its whole arena.
LeafLen(b, n) ==
    IF ~n.leaf THEN 0
    ELSE IF b.kind = "rtree" THEN Len(n.children) ELSE Len(n.items)

RECURSIVE SumLens(_, _)
SumLens(b, i) ==
    IF i > Len(b.arena) THEN 0
    ELSE LeafLen(b, b.arena[i]) + SumLens(b, i + 1)

StoredItemCount(b) ==
    IF b.kind \in {"rtree", "bvh"} THEN SumLens(b, 1) ELSE 0

\* The initial entries of the workload have all been inserted.
Filled(W) == Len(idx["flat"].entries) >= Len(W.fill)

\* A call after the initial entries takes one unit of the budget, if there is one.
Spend(W) ==
    IF W.budget = 0 THEN ops' = ops
    ELSE ops < W.budget /\ ops' = ops + 1

\* A caller may insert while the slot array is below the bound or a slot is free.
CanInsert(W, ix) == Len(ix.entries) < W.slots \/ ix.free_list # <<>>

InsertCall(W, a, p) ==
    /\ idx' = [k \in DOMAIN idx |-> IndexInsert(idx[k], a, p).ix]
    /\ keys' = keys \cup {IndexInsert(idx["flat"], a, p).key}
    /\ dmg' = NoDamage
    /\ hist' = IF Tracked(W)
               THEN [Forget(hist) EXCEPT ![IndexInsert(idx["flat"], a, p).key[1]] = HistBorn(a)]
               ELSE hist
    /\ UNCHANGED <<freed, dropped, retired>>

Fill(W) ==
    /\ ~Filled(W)
    /\ InsertCall(W, W.fill[Len(idx["flat"].entries) + 1], 10)
    /\ UNCHANGED <<ops, treeVars, respVars>>

Insert(W, a, p) ==
    /\ Filled(W)
    /\ CanInsert(W, idx["flat"])
    /\ Spend(W)
    /\ InsertCall(W, a, p)

Update(W, key, a) ==
    /\ Filled(W)
    /\ key[1] < W.hot
    /\ Spend(W)
    /\ idx' = [k \in DOMAIN idx |-> IndexUpdate(idx[k], key, a)]
    /\ dmg' = NoDamage
    /\ hist' = IF Tracked(W) /\ IsLiveKey(idx["flat"], key)
               THEN [Forget(hist) EXCEPT ![key[1]] =
                        [@ EXCEPT !.upd = TRUE, !.last = "update", !.box = Some(a)]]
               ELSE IF Tracked(W) THEN Forget(hist) ELSE hist
    /\ UNCHANGED <<keys, freed, dropped, retired>>

Remove(W, key) ==
    /\ Filled(W)
    /\ key[1] < W.hot
    /\ Spend(W)
    /\ idx' = [k \in DOMAIN idx |-> IndexRemove(idx[k], key)]
    /\ freed' = freed \cup NewlyFreed(idx["flat"], idx'["flat"])
    /\ dmg' = NoDamage
    /\ hist' = IF Tracked(W) /\ IsLiveKey(idx["flat"], key)
               THEN [Forget(hist) EXCEPT ![key[1]] = [@ EXCEPT !.rem = TRUE, !.last = "remove"]]
               ELSE IF Tracked(W) THEN Forget(hist) ELSE hist
    /\ dropped' = IF Tracked(W) THEN dropped \cup NewlyFreed(idx["flat"], idx'["flat"])
                  ELSE dropped
    /\ UNCHANGED <<keys, retired>>

Clear(W) ==
    /\ Filled(W)
    /\ Spend(W)
    /\ idx' = [k \in DOMAIN idx |-> IndexClear(idx[k])]
    /\ dmg' = NoDamage
    /\ hist' = IF Tracked(W) THEN [i \in DOMAIN hist |-> HistNone] ELSE hist
    /\ UNCHANGED <<keys, freed, dropped, retired>>

Commit(W) ==
    /\ Filled(W)
    /\ \E res \in {[k \in DOMAIN idx |-> IndexCommit(idx[k])]} :
          /\ idx' = [k \in DOMAIN idx |-> res[k].ix]
          /\ dmg' = res["flat"].dmg
    /\ \A k \in DOMAIN idx : StoredItemCount(idx'[k].backend) <= W.slots + MaxStale
    /\ freed' = freed \cup NewlyFreed(idx["flat"], idx'["flat"])
    /\ hist' = IF Tracked(W)
               THEN [i \in DOMAIN hist |->
                        IF IsSome(VecGet(idx'["flat"].entries, i))
                           /\ IsSome(Unwrap(VecGet(idx'["flat"].entries, i)))
                        THEN [HistCommitted EXCEPT
                                 !.at = Some(Unwrap(Unwrap(VecGet(idx'["flat"].entries, i))).aabb),
                                 !.was = Past(hist[i])]
                        ELSE [HistNone EXCEPT !.was = Past(hist[i])]]
               ELSE hist
    /\ retired' = IF Tracked(W) THEN retired \cup NewlyFreed(idx["flat"], idx'["flat"])
                  ELSE retired
    /\ UNCHANGED <<keys, ops, dropped>>

IdxNext(W) ==
    /\ \/ \E a \in W.boxes, p \in W.payloads : Insert(W, a, p)
       \/ \E key \in keys, a \in W.boxes : Update(W, key, a)
       \/ \E key \in keys : Remove(W, key)
       \/ Clear(W)
       \/ Commit(W)
    /\ UNCHANGED <<treeVars, respVars>>

Spec == IdxInit(WFlat) /\ [][IdxNext(WFlat)]_vars
SpecGrid == IdxInit(WGrid) /\ [][IdxNext(WGrid)]_vars
SpecRTree == IdxInit(WRTree) /\ [][IdxNext(WRTree)]_vars
\* A tree workload first inserts its initial entries.
FillNext(W) == Fill(W) \/ IdxNext(W)

SpecBVH == IdxInit(WBVH) /\ [][FillNext(WBVH)]_vars

SpecCover == IdxInit(WCover) /\ [][FillNext(WCover)]_vars

\* The live keys not yet marked for removal, and the one of them in the
\* lowest slot
Remaining(ix) ==
    {k \in keys : IsLiveKey(ix, k) /\ Unwrap(ix.entries[k[1] + 1]).mark # Some("Removed")}
EndKeys(ix) == {k \in Remaining(ix) : \A o \in Remaining(ix) : k[1] <= o[1]}

\* remove() of the remaining entry in the lowest slot
Drain(W) ==
    /\ Filled(W)
    /\ Spend(W)
    /\ \E key \in EndKeys(idx["flat"]) :
          /\ idx' = [k \in DOMAIN idx |-> IndexRemove(idx[k], key)]
          /\ freed' = freed \cup NewlyFreed(idx["flat"], idx'["flat"])
    /\ dmg' = NoDamage
    /\ UNCHANGED <<keys, hist, dropped, retired>>

DrainNext(W) ==
    \/ Fill(W)
    \/ /\ \/ \E a \in W.boxes, p \in W.payloads : Insert(W, a, p)
          \/ Drain(W)
          \/ Commit(W)
       /\ UNCHANGED <<treeVars, respVars>>

SpecDrain == IdxInit(WDrain) /\ [][DrainNext(WDrain)]_vars

SpecEmpty == IdxInit(WEmpty) /\ [][IdxNext(WEmpty)]_vars

SpecBatch == IdxInit(WBatch) /\ [][IdxNext(WBatch)]_vars

(***************************************************************************)
(* Claims about the index and its backends                                 *)
(***************************************************************************)

\* The keys a query returns, as a set
KeySet(results) == {results[i].key : i \in 1..Len(results)}

\* Index `k` and the flat index return the same keys for every listed query.
SameKeys(k, pts, rects) ==
    /\ \A q \in pts :
          KeySet(IndexQueryPoint(idx[k], q[1], q[2]))
              = KeySet(IndexQueryPoint(idx["flat"], q[1], q[2]))
    /\ \A r \in rects :
          KeySet(IndexQueryRect(idx[k], r)) = KeySet(IndexQueryRect(idx["flat"], r))

\* Backend `k` and the flat backend return the same slots, none of them twice.
SameSlotsOnce(k, pts, rects) ==
    /\ \A q \in pts :
          LET got == BackendQueryPoint(idx[k].backend, q[1], q[2])
          IN /\ Range(got) = Range(FlatQueryPoint(idx["flat"].backend, q[1], q[2]))
             /\ Cardinality(Range(got)) = Len(got)
    /\ \A r \in rects :
          LET got == BackendQueryRect(idx[k].backend, r)
          IN /\ Range(got) = Range(FlatQueryRect(idx["flat"].backend, r))
             /\ Cardinality(Range(got)) = Len(got)

\* C1: a key whose slot has been freed is never live again, so an insert that
\* reuses the slot returns a key different from every key issued for it before.
C1_FreedKeyStaysDead == \A k \in freed : ~IsLiveKey(idx["flat"], k)

\* C2: the index over the uniform grid returns the same keys as the index over
\* the flat backend for every query point and query rectangle.
C2_GridMatchesFlat == SameKeys("grid", QPoints, QRects)

\* C3: the index over the R-tree returns the same keys as the index over the
\* flat backend for every query point and query rectangle.
C3_RTreeMatchesFlat == SameKeys("rtree", QPoints, QRects)

\* C4: the BVH backend returns the same slots as the flat backend for every
\* query point and query rectangle, each slot at most once.
C4_BVHMatchesFlat == SameSlotsOnce("bvh", BigQPoints, BigQRects)

\* C4 witness: the BVH has split (its arena holds the two leaves of a split),
\* the root has collapsed back to a non-empty leaf, and a query returns slots.
C4_Witness ==
    LET b == idx["bvh"].backend
    IN /\ "bvh" \in DOMAIN idx
       /\ Len(b.arena) >= 3
       /\ IsSome(b.root)
       /\ At(b.arena, Unwrap(b.root)).leaf
       /\ At(b.arena, Unwrap(b.root)).items # <<>>
       /\ BackendQueryRect(b, Aabb(0, 0, 2 * FillCount, 1)) # <<>>

(***************************************************************************)
(* The box tree under a caller that passes it any NodeId it was ever       *)
(* given, live or stale.  A call that panics or never returns ends the     *)
(* run: tree.failed is set and no further call is made.                    *)
(***************************************************************************)
\* Bounds: node slots, generations per slot, calls other than commit
MaxNodes == 2
MaxGen == 2
MaxTreeOps == 5

TBounds == {Rect(0, 0, 2, 2), Rect(1, 1, 3, 3)}
TTransforms == {IDENTITY, Affine(-1, 0, 0, 1, 3, 0)}
TClips == {None, Some(Rect(0, 0, 1, 2))}
TZs == {0, 1}
TFlagSets == {VISIBLE + PICKABLE, VISIBLE, PICKABLE}
TPoints == {<<0, 0>>, <<1, 1>>, <<2, 1>>, <<3, 3>>}
TRects == {Rect(0, 0, 1, 1), Rect(2, 2, 4, 4)}
TFilters == {QueryFilter(v, p) : v \in BOOLEAN, p \in BOOLEAN}

\* The next insert takes a fresh slot or a freed one, within the bounds
CanInsertNode(t) ==
    IF t.free_list # <<>>
    THEN t.generations[t.free_list[Len(t.free_list)] + 1] < MaxGen
    ELSE Len(t.nodes) < MaxNodes

\* A mutating call is made on a tree no call has failed on, within the budget
Mutate(t1) ==
    /\ tree.failed = "none"
    /\ ops < MaxTreeOps
    /\ ops' = ops + 1
    /\ tree' = t1
    /\ commits' = 0
    /\ tdmg' = <<>>
    /\ UNCHANGED <<idxVars, respVars>>

BoxInsert(parent, bounds) ==
    /\ CanInsertNode(tree)
    /\ \E res \in {TreeInsert(tree, parent, [LocalNodeDefault EXCEPT !.local_bounds = bounds])} :
          /\ Mutate(res.tree)
          /\ ids' = ids \cup {res.id}

BoxRemove(id) ==
    /\ Mutate(TreeRemove(tree, id, 2 * Len(tree.nodes) + 2))
    /\ UNCHANGED ids

BoxReparent(id, new_parent) ==
    /\ Mutate(TreeReparent(tree, id, new_parent))
    /\ UNCHANGED ids

BoxSetTransform(id, tf) ==
    /\ Mutate(set_local_transform(tree, id, tf))
    /\ UNCHANGED ids

BoxSetClip(id, clip) ==
    /\ Mutate(set_local_clip(tree, id, clip))
    /\ UNCHANGED ids

BoxSetZ(id, z) ==
    /\ Mutate(set_z_index(tree, id, z))
    /\ UNCHANGED ids

BoxSetBounds(id, bounds) ==
    /\ Mutate(set_local_bounds(tree, id, bounds))
    /\ UNCHANGED ids

BoxSetFlags(id, flags) ==
    /\ Mutate(set_flags(tree, id, flags))
    /\ UNCHANGED ids

BoxCommit ==
    /\ tree.failed = "none"
    /\ \E res \in {TreeCommit(tree)} :
          /\ tree' = res.tree
          /\ tdmg' = res.dmg
          /\ commits' = IF res.tree.failed # "none" THEN 0
                         ELSE IF commits = 0 THEN 1 ELSE 2
    /\ UNCHANGED <<idxVars, ops, ids, respVars>>

Parents == {None} \cup {Some(p) : p \in ids}

BoxNext ==
    \/ \E parent \in Parents, b \in TBounds : BoxInsert(parent, b)
    \/ \E id \in ids : BoxRemove(id)
    \/ \E id \in ids, np \in Parents : BoxReparent(id, np)
    \/ \E id \in ids, tf \in TTransforms : BoxSetTransform(id, tf)
    \/ \E id \in ids, clip \in TClips : BoxSetClip(id, clip)
    \/ \E id \in ids, z \in TZs : BoxSetZ(id, z)
    \/ \E id \in ids, b \in TBounds : BoxSetBounds(id, b)
    \/ \E id \in ids, f \in TFlagSets : BoxSetFlags(id, f)
    \/ BoxCommit

SpecTree == IdxInit(WFlat) /\ [][BoxNext]_vars

(***************************************************************************)
(* Claims about the box tree                                               *)
(***************************************************************************)
\* The slots holding a node that a commit has given an index entry
CommittedSlots(t) ==
    {i \in 0..(Len(t.nodes) - 1) :
        IsSome(t.nodes[i + 1]) /\ IsSome(Unwrap(t.nodes[i + 1]).index_key)}

\* The node in slot i may be hit at pt under the filter
Qualifies(t, i, pt, filter) ==
    LET n == Unwrap(t.nodes[i + 1])
    IN /\ contains_point(rect_to_aabb(n.world.world_bounds), pt[1], pt[2])
       /\ filter.visible_only => FlagsContain(n.local.flags, VISIBLE)
       /\ filter.pickable_only => FlagsContain(n.local.flags, PICKABLE)
       /\ IsSome(n.local.local_clip) =>
             RectContains(Unwrap(n.local.local_clip),
                          AffineApply(AffineInverse(n.world.world_transform), pt[1], pt[2]))

\* Slot i is above slot j in the order (z_index, generation, slot)
Above(t, i, j) ==
    LET a == Unwrap(t.nodes[i + 1])
        b == Unwrap(t.nodes[j + 1])
    IN \/ a.local.z_index > b.local.z_index
       \/ /\ a.local.z_index = b.local.z_index
          /\ \/ a.generation > b.generation
             \/ a.generation = b.generation /\ i > j

TopmostAt(t, pt, filter) ==
    LET Q == {i \in CommittedSlots(t) : Qualifies(t, i, pt, filter)}
    IN IF Q = {} THEN [kind |-> "none"]
       ELSE LET top == CHOOSE i \in Q : \A j \in Q \ {i} : Above(t, i, j)
            IN [kind |-> "hit", node |-> NodeId(top, Unwrap(t.nodes[top + 1]).generation)]

\* C5: after a commit, hit_test_point returns the node greatest under
\* (z_index, generation, slot) among the live nodes whose committed world
\* AABB contains the point and that pass the flag filter and their local
\* clip, and returns None when there is no such node.
C5_HitTestTopmost ==
    commits >= 1 => \A pt \in TPoints, filter \in TFilters :
                LET got == hit_test_point(tree, pt, filter)
                    want == TopmostAt(tree, pt, filter)
                IN /\ got.kind = want.kind
                   /\ got.kind = "hit" => got.node = want.node

\* C6: a commit made right after a commit (the only call that spends no
\* budget) returns, reports no dirty rects, and leaves every hit_test_point
\* and intersect_rect result as it was.
C6_CommitIdempotent ==
    [][(commits >= 1 /\ ops' = ops) =>
          /\ tree'.failed = "none"
          /\ tdmg' = <<>>
          /\ \A pt \in TPoints, filter \in TFilters :
                hit_test_point(tree', pt, filter) = hit_test_point(tree, pt, filter)
          /\ \A r \in TRects, filter \in TFilters :
                intersect_rect(tree', r, filter) = intersect_rect(tree, r, filter)]_vars

\* C6 witness: a second commit in a row has been made on a tree whose nodes
\* fill every slot, one of them hit by a point query.
C6_Witness ==
    /\ commits = 2
    /\ Len(tree.nodes) = MaxNodes
    /\ \A i \in 1..Len(tree.nodes) : IsSome(tree.nodes[i])
    /\ \E pt \in TPoints : hit_test_point(tree, pt, QueryFilter(TRUE, TRUE)).kind = "hit"

\* C7: after a commit every live node has exactly one committed index entry,
\* under its index_key, with the node's id as payload and its world bounds as
\* AABB, and no index entry carries the id of a removed node.
C7_IndexInSync ==
    commits >= 1 =>
       /\ \A i \in 0..(Len(tree.nodes) - 1) :
             IsSome(tree.nodes[i + 1]) =>
                LET n == Unwrap(tree.nodes[i + 1])
                IN /\ IsSome(n.index_key)
                   /\ IsLiveKey(tree.index, Unwrap(n.index_key))
                   /\ LET e == Unwrap(tree.index.entries[Unwrap(n.index_key)[1] + 1])
                      IN /\ e.mark = None
                         /\ e.payload = NodeId(i, n.generation)
                         /\ e.aabb = rect_to_aabb(n.world.world_bounds)
                         /\ VecGet(tree.index.backend.entries, Unwrap(n.index_key)[1])
                               = Some(Some(e.aabb))
       /\ \A j \in 0..(Len(tree.index.entries) - 1) :
             IsSome(tree.index.entries[j + 1]) =>
                LET e == Unwrap(tree.index.entries[j + 1])
                IN /\ is_alive(tree, e.payload)
                   /\ NodeAt(tree, e.payload).index_key = Some(Key(j, e.generation))

(***************************************************************************)
(* The router under a caller that sets the tie-break policy, the scope and *)
(* the capture, and routes hit lists of up to MaxHits hits.                *)
(***************************************************************************)
MaxHits == 2

RNodes == {1, 2}
RDepths == {Z(0), Z(1), Distance(1), Distance(2)}
RPolicies == {"Newer", "Older", "MinId", "MaxId"}
RScopes == {None, Some({2})}
RCaptures == {None} \cup {Some(n) : n \in RNodes}

\* The paths a hit on node n may come with: none, a path ending at n, and for
\* node 1 an empty path
RPaths(n) == {None, Some(<<7, n>>)} \cup (IF n = 1 THEN {Some(<<>>)} ELSE {})

RawHits == {h \in [node : RNodes, path : UNION {RPaths(n) : n \in RNodes}, depth_key : RDepths] :
               h.path \in RPaths(h.node)}

\* Hit lists; the meta of a hit is its position in the list
HitLists ==
    UNION {{[i \in 1..k |-> ResolvedHit(f[i].node, f[i].path, f[i].depth_key, i)] :
               f \in [1..k -> RawHits]} : k \in 0..MaxHits}

Configure(r1) ==
    /\ router' = r1
    /\ rin' = <<>>
    /\ rout' = RouterIdle
    /\ UNCHANGED <<idxVars, ops, treeVars, hoverVars>>

RouterSetTieBreak(p) == Configure(set_default_tie_break(router, p))

RouterSetScope(scope) == Configure(set_scope(router, scope))

RouterCapture(node) == Configure(capture(router, node))

RouterHandle(hits) ==
    /\ rin' = hits
    /\ rout' = handle_with_hits(router, hits)
    /\ UNCHANGED <<router, idxVars, ops, treeVars, hoverVars>>

RouterNext ==
    \/ \E p \in RPolicies : RouterSetTieBreak(p)
    \/ \E scope \in RScopes : RouterSetScope(scope)
    \/ \E node \in RCaptures : RouterCapture(node)
    \/ \E hits \in HitLists : RouterHandle(hits)

SpecRouter == IdxInit(WFlat) /\ [][RouterNext]_vars

\* The caller may also replace the router by one built with Router::new or
\* with Router::with_parent
RParents == {"Chain", "NoParent"}

RouterBuild(lookup) == Configure(IF lookup = "NoParent" THEN RouterPlain ELSE RouterNew)

RoutesNext ==
    \/ RouterNext
    \/ \E lookup \in RParents : RouterBuild(lookup)

SpecRoutes == IdxInit(WFlat) /\ [][RoutesNext]_vars

(***************************************************************************)
(* Claims about the router                                                 *)
(***************************************************************************)
\* The Target entry of a non-empty dispatch sequence of the claimed shape
TargetOf(out) == out[(Len(out) + 1) \div 2]

\* The path from the root to node n that the parent lookup describes
AncestorPath(n) == [k \in 1..n |-> k]

\* The path the routed hit came with, or else the target's ancestors
RoutedPath(out) ==
    LET t == TargetOf(out)
    IN IF IsSome(t.meta) /\ IsSome(rin[Unwrap(t.meta)].path)
       THEN Unwrap(rin[Unwrap(t.meta)].path)
       ELSE AncestorPath(t.node)

\* C8: a non-empty result of handle_with_hits for the path p0..pn is
\* Capture(p0..pn), one Target(pn), Bubble(pn..p0): 2(n+1)+1 entries.
C8_DispatchShape ==
    (rout.kind = "ok" /\ rout.out # <<>>) =>
       LET out == rout.out
           path == RoutedPath(rout.out)
           n == Len(path)
       IN /\ n >= 1
          /\ Len(out) = 2 * n + 1
          /\ \A i \in 1..n : out[i].phase = "Capture" /\ out[i].node = path[i]
          /\ out[n + 1].phase = "Target" /\ out[n + 1].node = path[n]
          /\ \A i \in 1..n :
                out[n + 1 + i].phase = "Bubble" /\ out[n + 1 + i].node = path[n + 1 - i]
          /\ Cardinality({i \in 1..Len(out) : out[i].phase = "Target"}) = 1

\* C8 witness: a dispatch for a path of two nodes has been returned
C8_Witness ==
    /\ rout.kind = "ok"
    /\ Len(rout.out) = 5
    /\ rout.out[1].node # rout.out[2].node

\* Depth key a is strictly nearer than depth key b
Nearer(a, b) ==
    \/ a.kind = "Z" /\ b.kind = "Z" /\ a.v > b.v
    \/ a.kind = "Distance" /\ b.kind = "Distance" /\ a.v < b.v
    \/ a.kind = "Z" /\ b.kind = "Distance"

\* Positions of the hits the scope lets through
Considered == {i \in 1..Len(rin) : IsNone(router.scope) \/ rin[i].node \in Unwrap(router.scope)}

\* The last position among the considered hits that no considered hit is nearer than
DepthChoice ==
    LET nearest == {i \in Considered : \A j \in Considered :
                        ~Nearer(rin[j].depth_key, rin[i].depth_key)}
    IN CHOOSE i \in nearest : \A j \in nearest : j <= i

\* C9: without a capture the routed hit has the greatest depth key among the
\* considered hits and is the last such hit in input order, under every
\* tie-break policy; with no considered hit the result is empty.
C9_SelectsNearestLast ==
    (router.capture = None /\ rout.kind # "idle") =>
       IF Considered = {} THEN rout.kind = "ok" /\ rout.out = <<>>
       ELSE IF rin[DepthChoice].path = Some(<<>>) THEN rout.kind = "panic"
       ELSE /\ rout.kind = "ok"
            /\ rout.out # <<>>
            /\ TargetOf(rout.out).meta = Some(DepthChoice)

\* C9 witness: two considered hits of equal depth were routed under a policy
\* other than the default one, and the later one is the target.
C9_Witness ==
    /\ router.capture = None
    /\ router.default_tie_break = "MinId"
    /\ rout.kind = "ok"
    /\ Len(rin) = 2
    /\ Considered = {1, 2}
    /\ rin[1].depth_key = rin[2].depth_key
    /\ TargetOf(rout.out).meta = Some(2)

\* Every provided path of the hit list ends at the hit's own node
ProperPaths(hits) ==
    \A i \in 1..Len(hits) :
       IsSome(hits[i].path) =>
          /\ Unwrap(hits[i].path) # <<>>
          /\ Unwrap(hits[i].path)[Len(Unwrap(hits[i].path))] = hits[i].node

MaxPath == 3

HNodes == {1, 2, 3}
HPaths == UNION {[1..n -> HNodes] : n \in 0..MaxPath}

RECURSIVE Replay(_, _)
\* Enter(k) pushes k; Leave(k) pops, and is in order only with k on top
Replay(events, st) ==
    IF events = <<>> THEN st
    ELSE LET e == Head(events)
             n == Len(st.stack)
         IN Replay(Tail(events),
                   IF e.kind = "Enter"
                   THEN [st EXCEPT !.stack = Append(@, e.node)]
                   ELSE [stack |-> IF n = 0 THEN <<>> ELSE SubSeq(st.stack, 1, n - 1),
                         ok |-> st.ok /\ n > 0 /\ st.stack[n] = e.node])

HoverCall(op, new_path, res) ==
    /\ hover' = res.h
    /\ hin' = [op |-> op, cur |-> hover.current, new |-> new_path]
    /\ hout' = res.out
    /\ replay' = Replay(res.out, replay)
    /\ UNCHANGED <<idxVars, ops, treeVars, routerVars>>

HoverUpdate(new_path) == HoverCall("update_path", new_path, update_path(hover, new_path))

HoverClear == HoverCall("clear", <<>>, hover_clear(hover))

HoverNext ==
    \/ \E new_path \in HPaths : HoverUpdate(new_path)
    \/ HoverClear

SpecHover == IdxInit(WFlat) /\ [][HoverNext]_vars

(***************************************************************************)
(* Claims about the hover state                                            *)
(***************************************************************************)
\* The length of the longest common prefix of two paths
PrefixLen(a, b) ==
    CHOOSE n \in 0..Len(a) :
        /\ n <= Len(b)
        /\ \A i \in 1..n : a[i] = b[i]
        /\ n = Len(a) \/ n = Len(b) \/ a[n + 1] # b[n + 1]

\* C11: update_path(new) on the path cur with longest common prefix L returns
\* Leave(cur[|cur|-1]), ..., Leave(cur[L]) and then Enter(new[L]), ...,
\* Enter(new[|new|-1]) and nothing else, leaves the current path equal to new,
\* and returns no event when new equals cur.
C11_HoverTransition ==
    hin.op = "update_path" =>
        LET cur == hin.cur
            new == hin.new
            L == PrefixLen(cur, new)
        IN /\ hout = [i \in 1..(Len(cur) - L) |-> Leave(cur[Len(cur) + 1 - i])]
                     \o [i \in 1..(Len(new) - L) |-> Enter(new[L + i])]
           /\ current_path(hover) = new
           /\ cur = new => hout = <<>>

\* C11 witness: an update_path that shares a prefix of two nodes with the old
\* path, leaves a node and enters another one.
C11_Witness ==
    /\ hin.op = "update_path"
    /\ PrefixLen(hin.cur, hin.new) = 2
    /\ Len(hin.cur) = 3
    /\ Len(hin.new) = 3
    /\ hout = <<Leave(hin.cur[3]), Enter(hin.new[3])>>

\* C12: replaying every event emitted since HoverState::new on a stack finds
\* the node of each Leave on top of the stack, and after each call the stack
\* read bottom to top is the current path.
C12_ReplayRebuildsPath ==
    /\ replay.ok
    /\ replay.stack = current_path(hover)

\* C12 witness: a branch change under a shared root has been replayed: two
\* nodes left, two entered, and the stack holds the new path of three nodes.
C12_Witness ==
    /\ hin.op = "update_path"
    /\ Len(hin.cur) = 3
    /\ PrefixLen(hin.cur, hin.new) = 1
    /\ Len(hout) = 4
    /\ replay.ok
    /\ replay.stack = hin.new

(***************************************************************************)
(* Claims about batching and damage in the index                           *)
(***************************************************************************)
\* The (Key, payload) pairs a query returns, as a set
PairSet(results) == Range(results)

\* The step is an insert, update or remove call of workload W
MutationStep(W) ==
    \/ \E a \in W.boxes, p \in W.payloads : Insert(W, a, p)
    \/ \E key \in keys, a \in W.boxes : Update(W, key, a)
    \/ \E key \in keys : Remove(W, key)

\* Index k answers every listed query after the step as before it
QueriesFrozen(k, pts, rects) ==
    /\ \A q \in pts :
          PairSet(IndexQueryPoint(idx'[k], q[1], q[2]))
              = PairSet(IndexQueryPoint(idx[k], q[1], q[2]))
    /\ \A r \in rects :
          PairSet(IndexQueryRect(idx'[k], r)) = PairSet(IndexQueryRect(idx[k], r))

\* C13: an insert, update or remove call leaves the set of (Key, payload)
\* pairs returned by every query_point and query_rect as it was, here for the
\* index over the flat backend and the index over the R-tree.
C13_QueriesChangeOnlyAtCommit ==
    [][MutationStep(WRTree) => /\ QueriesFrozen("flat", QPoints, QRects)
                               /\ QueriesFrozen("rtree", QPoints, QRects)]_vars

\* The AABB the flat backend holds for a slot, if any
Held(ix, i) ==
    IF IsSome(VecGet(ix.backend.entries, i)) THEN Unwrap(VecGet(ix.backend.entries, i))
    ELSE None

\* How often each value occurs in a sequence
Counts(seq) == [x \in Range(seq) |-> Cardinality({i \in DOMAIN seq : seq[i] = x})]

RECURSIVE NetDamage(_, _, _, _)
\* The damage that describes the change of the backend from `old` to `new`,
\* slot by slot from slot i on
NetDamage(old, new, i, d) ==
    IF i >= Len(new.entries) /\ i >= Len(old.entries) THEN d
    ELSE LET b == Held(old, i)
             a == Held(new, i)
         IN NetDamage(old, new, i + 1,
               IF IsNone(b) /\ IsSome(a) THEN [d EXCEPT !.added = Append(@, Unwrap(a))]
               ELSE IF IsSome(b) /\ IsNone(a) THEN [d EXCEPT !.removed = Append(@, Unwrap(b))]
               ELSE IF IsSome(b) /\ IsSome(a) /\ a # b
               THEN [d EXCEPT !.moved = Append(@, <<Unwrap(b), Unwrap(a)>>)]
               ELSE d)

\* C14: the Damage a commit returns holds, for every slot, one `added` item
\* when the backend held nothing for the slot before and holds an AABB after,
\* one `removed` item with the AABB held before when it holds nothing after,
\* one `moved` pair (before, after) when both are held and differ, and
\* nothing else.
C14_DamageIsNetEffect ==
    [][Commit(WFlat) =>
          LET net == NetDamage(idx["flat"], idx'["flat"], 0, NoDamage)
          IN /\ Counts(dmg'.added) = Counts(net.added)
             /\ Counts(dmg'.removed) = Counts(net.removed)
             /\ Counts(dmg'.moved) = Counts(net.moved)]_vars

\* The index with the marks of every slot but slot i cleared: a commit of it
\* visits the other slots without touching them.
OnlySlot(ix, i) ==
    [ix EXCEPT !.entries =
        [j \in DOMAIN ix.entries |->
            IF j = i + 1 \/ IsNone(ix.entries[j]) THEN ix.entries[j]
            ELSE Some([Unwrap(ix.entries[j]) EXCEPT !.mark = None])]]

\* The damage items a commit pushes while it visits slot i
DamageOf(ix, i) == IndexCommit(OnlySlot(ix, i)).dmg

RECURSIVE SlotwiseDamage(_, _)
\* The items of every slot from slot i on, in slot order
SlotwiseDamage(ix, i) ==
    IF i >= Len(ix.entries) THEN NoDamage
    ELSE LET d == DamageOf(ix, i)
             r == SlotwiseDamage(ix, i + 1)
         IN [added |-> d.added \o r.added, removed |-> d.removed \o r.removed,
             moved |-> d.moved \o r.moved]

\* The damage a commit returns is made of the items of its slots.
DamageBySlot == dmg' = SlotwiseDamage(idx["flat"], 0)

\* Slot i holds an entry that was there at the last commit and was updated,
\* and not removed, since.
UpdatedOnly(i) == hist[i].born = "committed" /\ hist[i].upd /\ ~hist[i].rem

\* C15: an entry present at the previous commit with AABB A that was updated
\* once or more and not removed in the batch, the last update setting B, gets
\* from the next commit exactly one `moved` pair (A, B) when A # B and none
\* when A = B, and no item in `added` or `removed`.
C15_MovedFromCommittedBox ==
    [][Commit(WBatch) =>
          /\ DamageBySlot
          /\ \A i \in DOMAIN hist :
                UpdatedOnly(i) =>
                   LET A == Unwrap(hist[i].at)
                       B == Unwrap(hist[i].box)
                       d == DamageOf(idx["flat"], i)
                   IN /\ d.added = <<>>
                      /\ d.removed = <<>>
                      /\ d.moved = IF A # B THEN <<<<A, B>>>> ELSE <<>>]_vars

\* A commit has just reported one pair (A, B) for an entry that the closed
\* batch updated and did not remove, next to an entry added in that batch.
C15_Witness ==
    /\ dmg.moved = <<<<Aabb(0, 0, 1, 1), Aabb(1, 1, 3, 2)>>>>
    /\ Len(dmg.added) = 1
    /\ dmg.removed = <<>>
    /\ \E i \in DOMAIN hist :
          /\ hist[i].was.born = "committed" /\ hist[i].was.upd /\ ~hist[i].was.rem
          /\ hist[i].at = Some(Aabb(1, 1, 3, 2))

\* The keys some query_point or query_rect returns
ReturnedKeys(ix, pts, rects) ==
    {r.key : r \in UNION ({PairSet(IndexQueryPoint(ix, p[1], p[2])) : p \in pts}
                          \cup {PairSet(IndexQueryRect(ix, q)) : q \in rects})}

\* Slot i held an entry that was inserted and removed in the current batch,
\* and no insert has taken the slot since.
DroppedInBatch(i) == hist[i].born = "batch" /\ hist[i].rem

\* C16: an entry inserted and removed within one batch is never passed to the
\* backend, has no item in the damage of the next commit, is never returned
\* by a query before or after that commit, and its slot is free for reuse
\* right after the remove.
C16_AddedThenRemovedInvisible ==
    /\ \A k \in dropped : k \notin ReturnedKeys(idx["flat"], QPoints, QRects)
    /\ \A i \in DOMAIN hist :
          DroppedInBatch(i) =>
             /\ IsNone(Held(idx["flat"], i))
             /\ DamageOf(idx["flat"], i) = NoDamage
             /\ i \in Range(idx["flat"].free_list)

\* Slot i holds an entry that was inserted since the last commit.
BornInBatch(i) == hist[i].born = "batch" /\ ~hist[i].rem

\* C17: an entry inserted and then updated any number of times before its
\* first commit gets from that commit exactly one `added` item, with the AABB
\* of the last update, and no `moved` pair; what the backend receives for it
\* is a single insert with that AABB.
C17_UpdatesBeforeFirstCommitAbsorbed ==
    [][Commit(WBatch) =>
          /\ DamageBySlot
          /\ \A i \in DOMAIN hist :
                BornInBatch(i) =>
                   LET B == Unwrap(hist[i].box)
                       one == IndexCommit(OnlySlot(idx["flat"], i))
                   IN /\ one.dmg = [NoDamage EXCEPT !.added = <<B>>]
                      /\ one.ix.backend = BackendInsert(idx["flat"].backend, i, B)
                      /\ Held(idx'["flat"], i) = Some(B)]_vars

\* A commit has just added, once and with the box of its last update, an
\* entry that the closed batch inserted and updated.
C17_Witness ==
    \E i \in DOMAIN hist :
       /\ hist[i].was.born = "batch" /\ hist[i].was.upd /\ ~hist[i].was.rem
       /\ hist[i].at = Some(Aabb(1, 1, 3, 2))
       /\ dmg = [NoDamage EXCEPT !.added = <<Aabb(1, 1, 3, 2)>>]

\* Slot i holds an entry that was there at the last commit and whose key was
\* last written by a remove.
RemovedLast(i) == hist[i].born = "committed" /\ hist[i].last = "remove"

\* C18: when a committed entry is removed and its key is not written again in
\* the batch, the next commit lists it exactly once in `removed` and in
\* neither `added` nor `moved` and frees its slot, and from then on no
\* query_point or query_rect returns that key.
C18_RemovedKeyGone ==
    /\ [][Commit(WBatch) =>
             /\ DamageBySlot
             /\ \A i \in DOMAIN hist :
                   RemovedLast(i) =>
                      LET d == DamageOf(idx["flat"], i)
                      IN /\ Len(d.removed) = 1
                         /\ d.added = <<>>
                         /\ d.moved = <<>>
                         /\ IsNone(idx'["flat"].entries[i + 1])
                         /\ i \in Range(idx'["flat"].free_list)]_vars
    /\ [](\A k \in retired : k \notin ReturnedKeys(idx["flat"], QPoints, QRects))

\* C19: for an entry present at the previous commit, the last update or
\* remove call on its key in the batch decides what is committed for its
\* slot: after update(key, B) the slot is committed with AABB B, also when a
\* remove came earlier in the batch, and after remove(key) the slot is absent
\* after the commit, whatever updates came before.
C19_LastWriteWins ==
    [][Commit(WBatch) =>
          \A i \in DOMAIN hist :
             hist[i].born = "committed" =>
                LET b == idx["flat"].backend
                    one == IndexCommit(OnlySlot(idx["flat"], i))
                    after == VecGet(idx'["flat"].entries, i)
                IN /\ hist[i].last = "update" =>
                         /\ one.ix.backend = BackendUpdate(b, i, Unwrap(hist[i].box))
                         /\ Held(idx'["flat"], i) = hist[i].box
                         /\ IsSome(Unwrap(after))
                         /\ Unwrap(Unwrap(after)).aabb = Unwrap(hist[i].box)
                   /\ hist[i].last = "remove" =>
                         /\ one.ix.backend = BackendRemove(b, i)
                         /\ IsNone(Held(idx'["flat"], i))
                         /\ IsNone(Unwrap(after))]_vars

\* A commit has just closed a batch in which one committed entry was removed
\* and then updated, and is there with the box of the update, and another
\* was updated and then removed, and is gone.
C19_Witness ==
    \E i, j \in DOMAIN hist :
       /\ hist[i].was.born = "committed" /\ hist[i].was.rem
       /\ hist[i].was.last = "update"
       /\ hist[i].at = hist[i].was.box
       /\ Held(idx["flat"], i) = hist[i].was.box
       /\ hist[j].was.born = "committed" /\ hist[j].was.upd
       /\ hist[j].was.last = "remove"
       /\ hist[j].born = "none"
       /\ IsNone(Held(idx["flat"], j))

\* No call is pending: every entry has been through a commit since its last
\* insert, update or remove.
Committed(ix) ==
    \A j \in DOMAIN ix.entries :
       IsNone(ix.entries[j]) \/ IsNone(Unwrap(ix.entries[j]).mark)

\* Rectangle r contains AABB a.
Covers(r, a) ==
    r.min_x <= a.min_x /\ r.min_y <= a.min_y /\ a.max_x <= r.max_x /\ a.max_y <= r.max_y

\* The rectangles asked for: the listed ones, one over all the boxes of the
\* workloads, and the AABB of each entry itself
CoverRects(ix) ==
    QRects \cup {Aabb(0, 0, 18, 3)}
           \cup {Unwrap(ix.entries[j]).aabb : j \in {n \in DOMAIN ix.entries : IsSome(ix.entries[n])}}

\* C20: over every backend and in every committed state, each live entry with
\* a non-empty AABB is returned by query_rect(R) for every rectangle R that
\* contains its AABB.
C20_NoFalseNegatives ==
    \A k \in DOMAIN idx :
       (Committed(idx[k]) /\ ~idx[k].panicked) =>
          \A r \in CoverRects(idx[k]) :
             LET found == {x.key : x \in PairSet(IndexQueryRect(idx[k], r))}
             IN \A j \in DOMAIN idx[k].entries :
                   (/\ IsSome(idx[k].entries[j])
                    /\ ~is_empty(Unwrap(idx[k].entries[j]).aabb)
                    /\ Covers(r, Unwrap(idx[k].entries[j]).aabb))
                   => Key(j - 1, Unwrap(idx[k].entries[j]).generation) \in found

\* In a committed state whose R-tree and BVH have split, an entry that was
\* moved to the box (9,0)-(12,1) is returned over every backend by
\* query_rect of that box.
C20_Witness ==
    /\ Len(idx["rtree"].backend.arena) > 1
    /\ Len(idx["bvh"].backend.arena) > 1
    /\ ops > 0
    /\ \A k \in DOMAIN idx : Committed(idx[k]) /\ ~idx[k].panicked
    /\ \E j \in DOMAIN idx["flat"].entries :
          /\ IsSome(idx["flat"].entries[j])
          /\ Unwrap(idx["flat"].entries[j]).aabb = Aabb(9, 0, 12, 1)
          /\ \A k \in DOMAIN idx :
                Key(j - 1, Unwrap(idx["flat"].entries[j]).generation)
                   \in {x.key : x \in PairSet(IndexQueryRect(idx[k], Aabb(9, 0, 12, 1)))}

\* The keys of the entries of the index whose AABB is empty or inverted
EmptyKeys(ix) ==
    {Key(j - 1, Unwrap(ix.entries[j]).generation) :
        j \in {n \in DOMAIN ix.entries :
                  IsSome(ix.entries[n]) /\ is_empty(Unwrap(ix.entries[n]).aabb)}}

\* C21: on every backend and in every committed state, an entry whose AABB is
\* empty or inverted is returned by no query_point and no query_rect.
C21_EmptyBoxesNeverMatch ==
    \A k \in DOMAIN idx :
       (Committed(idx[k]) /\ ~idx[k].panicked) =>
          EmptyKeys(idx[k]) \cap ReturnedKeys(idx[k], QPoints, QRects) = {}

\* C22: with the R-tree backend every insert, update, remove and commit
\* issued with live keys completes; in particular, once every entry of a
\* tree that has split has been removed and committed, a further insert and
\* commit completes and the new entry is returned by the queries that match
\* its AABB.
C22_RTreeNeverFails ==
    /\ ~idx["rtree"].panicked
    /\ Committed(idx["rtree"]) =>
          \A j \in DOMAIN idx["rtree"].entries :
             (IsSome(idx["rtree"].entries[j]) /\ ~is_empty(Unwrap(idx["rtree"].entries[j]).aabb))
             => LET e == Unwrap(idx["rtree"].entries[j])
                IN Key(j - 1, e.generation)
                      \in {x.key : x \in PairSet(IndexQueryRect(idx["rtree"], e.aabb))}

(***************************************************************************)
(* The box tree under a caller that passes live ids only, over three node  *)
(* slots, so that a node can have a grandchild.                            *)
(***************************************************************************)
LiveNodes == 3
LiveOps == 5

LiveIds == {id \in ids : is_alive(tree, id)}
LiveParents == {None} \cup {Some(p) : p \in LiveIds}

CanInsertLive(t) ==
    IF t.free_list # <<>>
    THEN t.generations[t.free_list[Len(t.free_list)] + 1] < MaxGen
    ELSE Len(t.nodes) < LiveNodes

LiveMutate(t1) ==
    /\ tree.failed = "none"
    /\ ops < LiveOps
    /\ ops' = ops + 1
    /\ tree' = t1
    /\ commits' = 0
    /\ tdmg' = <<>>
    /\ UNCHANGED <<idxVars, respVars>>

LiveInsert(parent, bounds) ==
    /\ CanInsertLive(tree)
    /\ \E res \in {TreeInsert(tree, parent, [LocalNodeDefault EXCEPT !.local_bounds = bounds])} :
          /\ LiveMutate(res.tree)
          /\ ids' = ids \cup {res.id}

LiveRemove(id) ==
    /\ LiveMutate(TreeRemove(tree, id, 2 * Len(tree.nodes) + 2))
    /\ UNCHANGED ids

LiveReparent(id, new_parent) ==
    /\ LiveMutate(TreeReparent(tree, id, new_parent))
    /\ UNCHANGED ids

LiveSetTransform(id, tf) ==
    /\ LiveMutate(set_local_transform(tree, id, tf))
    /\ UNCHANGED ids

LiveSetClip(id, clip) ==
    /\ LiveMutate(set_local_clip(tree, id, clip))
    /\ UNCHANGED ids

LiveSetBounds(id, bounds) ==
    /\ LiveMutate(set_local_bounds(tree, id, bounds))
    /\ UNCHANGED ids

LiveSetFlags(id, flags) ==
    /\ LiveMutate(set_flags(tree, id, flags))
    /\ UNCHANGED ids

LiveNext ==
    \/ \E parent \in LiveParents, b \in TBounds : LiveInsert(parent, b)
    \/ \E id \in LiveIds : LiveRemove(id)
    \/ \E id \in LiveIds, np \in LiveParents : LiveReparent(id, np)
    \/ \E id \in LiveIds, tf \in TTransforms : LiveSetTransform(id, tf)
    \/ \E id \in LiveIds, clip \in TClips : LiveSetClip(id, clip)
    \/ \E id \in LiveIds, b \in TBounds : LiveSetBounds(id, b)
    \/ \E id \in LiveIds, f \in TFlagSets : LiveSetFlags(id, f)
    \/ BoxCommit

SpecLive == IdxInit(WFlat) /\ [][LiveNext]_vars

(***************************************************************************)
(* Claims about node ids, removal and world state of the box tree          *)
(***************************************************************************)
\* The ids handed out whose node is gone
DeadIds(t) == {id \in ids : ~is_alive(t, id)}

\* Every call that takes the id of a node leaves the tree as it is.
Inert(t, old) ==
    /\ z_index(t, old) = None
    /\ \A b \in TBounds : set_local_bounds(t, old, b) = t
    /\ \A tf \in TTransforms : set_local_transform(t, old, tf) = t
    /\ \A c \in TClips : set_local_clip(t, old, c) = t
    /\ \A f \in TFlagSets : set_flags(t, old, f) = t
    /\ \A z \in TZs : set_z_index(t, old, z) = t
    /\ TreeRemove(t, old, 2 * Len(t.nodes) + 2) = t
    /\ \A np \in Parents : TreeReparent(t, old, np) = t

Reported(t) ==
    UNION ({LET h == hit_test_point(t, pt, f)
            IN IF h.kind = "hit" THEN {h.node} \cup Range(h.path) ELSE {} :
               pt \in TPoints, f \in TFilters}
           \cup {Range(intersect_rect(t, r, f)) : r \in TRects, f \in TFilters})

\* Every listed query gives the same result on both trees.
SameAnswers(t1, t2) ==
    /\ \A pt \in TPoints, f \in TFilters : hit_test_point(t1, pt, f) = hit_test_point(t2, pt, f)
    /\ \A r \in TRects, f \in TFilters : intersect_rect(t1, r, f) = intersect_rect(t2, r, f)

\* C24: after remove(id) of a committed node and before the next commit,
\* hit_test_point and intersect_rect give the results they gave before the
\* removal; after that commit no query reports the removed node.
C24_RemovalVisibleAtCommit ==
    /\ [][(commits >= 1 /\ \E id \in ids : is_alive(tree, id) /\ BoxRemove(id))
             => SameAnswers(tree, tree')]_vars
    /\ [](commits >= 1 => DeadIds(tree) \cap Reported(tree) = {})

RECURSIVE Reach(_, _, _)
\* The ids reached from the set S through children lists in at most n steps
Reach(t, S, n) ==
    IF n = 0 THEN S
    ELSE Reach(t, S \cup UNION {Range(NodeAt(t, c).children) : c \in {x \in S : SlotFilled(t, x)}},
               n - 1)

\* id and its descendants
Subtree(t, id) == Reach(t, {id}, Len(t.nodes))

\* The node ids that have an entry in the tree's index
IndexedIds(t) ==
    {Unwrap(t.index.entries[i]).payload :
        i \in {j \in 1..Len(t.index.entries) : IsSome(t.index.entries[j])}}

\* remove(id) took t to t1: the subtree of id is gone, id has left the
\* children list of its parent, and the other slots hold what they held
RemovedWhole(t, t1, id) ==
    LET gone == {d[1] : d \in Subtree(t, id)}
        parent == NodeAt(t, id).parent
        Kept(i) ==
            /\ IsSome(t1.nodes[i + 1]) = IsSome(t.nodes[i + 1])
            /\ IsSome(t.nodes[i + 1]) =>
                  LET n == Unwrap(t.nodes[i + 1])
                      n1 == Unwrap(t1.nodes[i + 1])
                  IN /\ n1.generation = n.generation
                     /\ n1.parent = n.parent
                     /\ IF IsSome(parent) /\ Unwrap(parent)[1] = i
                        THEN n1.children = SeqFilterOut(n.children, id)
                        ELSE n1.children = n.children
    IN /\ t1.failed = "none"
       /\ Len(t1.nodes) = Len(t.nodes)
       /\ \A d \in Subtree(t, id) : ~is_alive(t1, d)
       /\ \A i \in 0..(Len(t.nodes) - 1) : i \notin gone => Kept(i)

\* A step that is the call remove(id) on a live node
RemoveStep(id) ==
    /\ is_alive(tree, id)
    /\ ops' = ops + 1
    /\ tree' = TreeRemove(tree, id, 2 * Len(tree.nodes) + 2)

\* C25: remove(id) on a live node makes id and every descendant of id not
\* alive at once, takes id out of its parent's children list and leaves the
\* liveness, parent and children of the nodes outside the subtree as they
\* were; after the next commit the index has no entry for a removed node.
C25_SubtreeRemoval ==
    /\ [][\A id \in ids : RemoveStep(id) => RemovedWhole(tree, tree', id)]_vars
    /\ [](commits >= 1 => \A id \in IndexedIds(tree) : is_alive(tree, id))

\* A root and the two nodes below it are all gone after one remove call
\* (three inserts and one removal make the four calls), and a commit has
\* emptied the index
C25_Witness ==
    /\ ops = 4
    /\ commits >= 1
    /\ Len(tree.nodes) = 3
    /\ \A i \in 1..3 : IsNone(tree.nodes[i])
    /\ IndexedIds(tree) = {}

\* The world state a commit has to leave in the live node id: the transform
\* composed from the parent's, and the bounds clipped by the node's world clip
WorldStateRight(t, id) ==
    LET n == NodeAt(t, id)
        wt == n.world.world_transform
        hull == transform_rect_bbox(wt, n.local.local_bounds)
    IN /\ IsSome(n.parent) => SlotFilled(t, Unwrap(n.parent))
       /\ wt = AffineMul(IF IsSome(n.parent)
                         THEN NodeAt(t, Unwrap(n.parent)).world.world_transform
                         ELSE IDENTITY,
                         n.local.local_transform)
       /\ n.world.world_bounds = IF IsSome(n.world.world_clip)
                                 THEN RectIntersect(hull, Unwrap(n.world.world_clip))
                                 ELSE hull

\* intersect_rect without a filter reports id for the rects its world_bounds
\* meet, its own world_bounds among them, and for no other rect
ReportedAt(t, id) ==
    LET wb == NodeAt(t, id).world.world_bounds
    IN \A r \in TRects \cup {wb} :
          (id \in Range(intersect_rect(t, r, QueryFilter(FALSE, FALSE))))
              <=> ~is_empty(intersect(rect_to_aabb(wb), rect_to_aabb(r)))

RECURSIVE AncestorsOf(_, _, _)
\* The nodes on the parent chain of id, at most n of them
AncestorsOf(t, id, n) ==
    IF n = 0 \/ IsNone(NodeAt(t, id).parent) \/ ~SlotFilled(t, Unwrap(NodeAt(t, id).parent))
    THEN {}
    ELSE {Unwrap(NodeAt(t, id).parent)}
            \cup AncestorsOf(t, Unwrap(NodeAt(t, id).parent), n - 1)

\* The rect r has no point outside the rect c (a rect of zero width or
\* height has no point at all)
RectInside(r, c) ==
    \/ RectWidth(r) <= 0
    \/ RectHeight(r) <= 0
    \/ c.x0 <= r.x0 /\ c.y0 <= r.y0 /\ r.x1 <= c.x1 /\ r.y1 <= c.y1

\* The local clip of node a in world space
WorldClipOf(t, a) ==
    transform_rect_bbox(NodeAt(t, a).world.world_transform,
                        Unwrap(NodeAt(t, a).local.local_clip))

\* C27: after commit the world_bounds of every live node lies inside the
\* world-space clip rect of every ancestor that has a local clip and inside
\* its own clip, also when both the node and an ancestor have a local clip.
C27_ClipsBoundWorldBounds ==
    commits >= 1 =>
        \A id \in ids : is_alive(tree, id) =>
            \A a \in {id} \cup AncestorsOf(tree, id, Len(tree.nodes)) :
                IsSome(NodeAt(tree, a).local.local_clip) =>
                    RectInside(NodeAt(tree, id).world.world_bounds, WorldClipOf(tree, a))

\* The live nodes whose world AABB meets rect and that carry every flag the
\* filter selects
Selected(t, rect, filter) ==
    {id \in ids :
        /\ is_alive(t, id)
        /\ ~is_empty(intersect(rect_to_aabb(NodeAt(t, id).world.world_bounds),
                               rect_to_aabb(rect)))
        /\ filter.visible_only => FlagsContain(NodeAt(t, id).local.flags, VISIBLE)
        /\ filter.pickable_only => FlagsContain(NodeAt(t, id).local.flags, PICKABLE)}

\* C28: after commit, intersect_rect(rect, filter) returns exactly the live
\* nodes whose world AABB intersects rect and that carry every flag the
\* filter selects: none lacking PICKABLE under pickable_only, none lacking
\* VISIBLE under visible_only.
C28_IntersectRectHonorsFilter ==
    commits >= 1 =>
        \A rect \in TRects, filter \in TFilters :
            Range(intersect_rect(tree, rect, filter)) = Selected(tree, rect, filter)

\* Some rect of the list covers r (a rect of zero width or height has no
\* point to cover)
CoveredBy(r, rects) ==
    \/ RectWidth(r) <= 0
    \/ RectHeight(r) <= 0
    \/ \E i \in 1..Len(rects) : RectInside(r, rects[i])

\* The boxes of the index entries that a remove since the last commit marked
RemovedBoxes(t) ==
    {Unwrap(t.index.entries[i]).aabb :
        i \in {j \in 1..Len(t.index.entries) :
                  /\ IsSome(t.index.entries[j])
                  /\ Unwrap(t.index.entries[j]).mark = Some("Removed")}}

\* commit took t to t1 and returned the dirty rects `rects`
DamageCovers(t, t1, rects) ==
    LET filled == {i \in 1..Len(t.nodes) : IsSome(t.nodes[i])}
        Old(i) == Unwrap(t.nodes[i]).world.world_bounds
        New(i) == Unwrap(t1.nodes[i]).world.world_bounds
    IN /\ \A i \in filled :
             Old(i) # New(i) =>
                /\ (RectWidth(Old(i)) > 0 /\ RectHeight(Old(i)) > 0) => Old(i) \in Range(rects)
                /\ (RectWidth(New(i)) > 0 /\ RectHeight(New(i)) > 0) => New(i) \in Range(rects)
       /\ \A i \in filled :
             IsNone(Unwrap(t.nodes[i]).index_key) => CoveredBy(New(i), rects)
       /\ \A b \in RemovedBoxes(t) :
             CoveredBy(Rect(b.min_x, b.min_y, b.max_x, b.max_y), rects)

\* C29: for every commit, a node whose world_bounds changes from O to N has
\* O and N among the dirty_rects returned, each when it has positive width
\* and height, and the dirty_rects cover the world bounds of every node
\* inserted since the previous commit and the last committed world bounds
\* of every node removed since then.
C29_TreeDamageCoversChanges ==
    [][(BoxCommit /\ tree'.failed = "none") => DamageCovers(tree, tree', tdmg')]_vars

\* A commit has just reported damage for a committed node that moved (two
\* rects), for a node inserted since the commit before (one rect) and the
\* union from the index, where the entry of a node removed since the commit
\* before was freed only after the inserted node took a third entry
C29_Witness ==
    /\ commits = 1
    /\ Len(tdmg) >= 4
    /\ Len(tree.index.entries) = 3
    /\ tree.index.free_list # <<>>

\* path is the chain of ancestors of node, from a node without parent down
\* to node, each element the parent of the next, no element twice
PathRight(t, node, path) ==
    /\ path # <<>>
    /\ \A i \in 1..Len(path) : SlotFilled(t, path[i])
    /\ IsNone(NodeAt(t, path[1]).parent)
    /\ path[Len(path)] = node
    /\ \A i \in 1..(Len(path) - 1) : NodeAt(t, path[i + 1]).parent = Some(path[i])
    /\ \A i, j \in 1..Len(path) : path[i] = path[j] => i = j

\* The hits hit_test_point returns for the points and filters of the model
HitsOf(t) ==
    {h \in {hit_test_point(t, pt, filter) : pt \in TPoints, filter \in TFilters} :
        h.kind = "hit"}

DispatchedPath(out) == [i \in 1..((Len(out) - 1) \div 2) |-> out[i].node]

\* The path rebuilt from node n with the router's parent lookup
Rebuilt(n) == IF router.parent = "NoParent" THEN <<n>> ELSE AncestorPath(n)

\* Positions of the hits on the captured node
CapturedHits == {i \in 1..Len(rin) : Some(rin[i].node) = router.capture}

LastCaptured == CHOOSE i \in CapturedHits : \A j \in CapturedHits : j <= i

C32_ScopeFilter ==
    (IsNone(router.capture) /\ rout.kind # "idle") =>
       /\ (rout.kind = "ok" /\ rout.out # <<>>) =>
             /\ IsSome(TargetOf(rout.out).meta)
             /\ Unwrap(TargetOf(rout.out).meta) \in Considered
       /\ Considered = {} => (rout.kind = "ok" /\ rout.out = <<>>)

\* Under the scope {2} a hit on node 1 that is nearer than the hit on node 2
\* was passed over: the target is node 2
C32_Witness ==
    /\ router.capture = None
    /\ router.scope = Some({2})
    /\ rout.kind = "ok"
    /\ Len(rin) = 2
    /\ rin[1].node = 1 /\ rin[2].node = 2
    /\ Nearer(rin[1].depth_key, rin[2].depth_key)
    /\ TargetOf(rout.out).meta = Some(2)

\* C33: without a capture the path dispatched for the selected hit is the
\* path the hit came with; without one it is the chain of parent_of from the
\* hit's node up to the node without parent, in root-to-target order, which
\* is the singleton [node] for a router built with NoParent.
C33_PathMaterialization ==
    (IsNone(router.capture) /\ rout.kind = "ok" /\ rout.out # <<>>) =>
       /\ IsSome(TargetOf(rout.out).meta)
       /\ LET hit == rin[Unwrap(TargetOf(rout.out).meta)]
          IN DispatchedPath(rout.out) =
                IF IsSome(hit.path) THEN Unwrap(hit.path) ELSE Rebuilt(hit.node)

\* A router built with Router::new routed a hit on node 2 that came without
\* a path: the dispatched path is the singleton
C33_Witness ==
    /\ router.capture = None
    /\ router.parent = "NoParent"
    /\ rout.kind = "ok"
    /\ Len(rin) = 1
    /\ rin[1].node = 2 /\ rin[1].path = None
    /\ DispatchedPath(rout.out) = <<2>>

(***************************************************************************)
(* Claims about HoverState::clear                                          *)
(***************************************************************************)
\* C34: clear() returns Leave for every node of the current path from the
\* innermost to the outermost and no Enter, leaves current_path() empty, and
\* returns the events update_path with the empty path would return; on an
\* empty state it returns no events.
C34_HoverClear ==
    hin.op = "clear" =>
        /\ hout = [i \in 1..Len(hin.cur) |-> Leave(hin.cur[Len(hin.cur) + 1 - i])]
        /\ \A i \in 1..Len(hout) : hout[i].kind # "Enter"
        /\ current_path(hover) = <<>>
        /\ hout = update_path([current |-> hin.cur], <<>>).out
        /\ hin.cur = <<>> => hout = <<>>

\* A clear of a path of three different nodes has returned three Leave events
C34_Witness ==
    /\ hin.op = "clear"
    /\ Len(hin.cur) = 3
    /\ hin.cur[1] # hin.cur[2] /\ hin.cur[2] # hin.cur[3]
    /\ Len(hout) = 3
    /\ hout[1] = Leave(hin.cur[3])

(***************************************************************************)
(* Claims about the links and the ids of the box tree                      *)
(***************************************************************************)
\* The ids of the nodes the tree holds
HeldIds(t) ==
    {NodeId(i, Unwrap(t.nodes[i + 1]).generation) :
        i \in {j \in 0..(Len(t.nodes) - 1) : IsSome(t.nodes[j + 1])}}

\* Parent fields and children lists name live nodes and agree with each other
LinksConsistent(t) ==
    \A n \in HeldIds(t) :
       LET node == NodeAt(t, n)
       IN /\ IsSome(node.parent) =>
                /\ is_alive(t, Unwrap(node.parent))
                /\ n \in Range(NodeAt(t, Unwrap(node.parent)).children)
          /\ \A c \in Range(node.children) :
                is_alive(t, c) /\ NodeAt(t, c).parent = Some(n)
          /\ \A i, j \in 1..Len(node.children) :
                node.children[i] = node.children[j] => i = j

\* C35: after any sequence of insert, remove and reparent calls made with
\* live ids, n.parent = p exactly when p.children contains n, n occurs at
\* most once in p.children, and every id in a parent field or a children
\* list is that of a live node.
C35_LinksConsistent == tree.failed = "none" => LinksConsistent(tree)

\* The node first inserted has become the child of a node inserted after it,
\* which only a reparent brings about, and that node has a parent of its own
C35_Witness ==
    /\ tree.failed = "none"
    /\ Len(tree.nodes) = 3
    /\ \A i \in 1..3 : IsSome(tree.nodes[i]) /\ Unwrap(tree.nodes[i]).generation = 1
    /\ Unwrap(tree.nodes[1]).parent = Some(NodeId(1, 1))
    /\ Unwrap(tree.nodes[2]).parent = Some(NodeId(2, 1))

\* C36: in every reachable state the node and every path element returned
\* by hit_test_point and every id returned by intersect_rect is alive at the
\* time of the call, also when a node was removed and its slot taken by a new
\* insert with no commit in between.
C36_QueriesReturnLiveIds ==
    tree.failed = "none" => \A id \in Reported(tree) : is_alive(tree, id)

\* C37: after any sequence of insert, remove and reparent calls with live
\* ids, a reparent onto the node itself or onto a descendant included, every
\* call has returned (reparent and commit terminate), and following the
\* parent fields from any live node ends at a node without parent, so
\* path_to_root, and with it hit_test_point, terminates.
C37_ParentsAcyclic ==
    /\ tree.failed = "none"
    /\ \A n \in HeldIds(tree) : path_to_root(tree, n, <<>>).kind = "ok"

\* The step is a call of one of the five setters
SetterStep ==
    \E id \in ids :
       \/ \E tf \in TTransforms : BoxSetTransform(id, tf)
       \/ \E clip \in TClips : BoxSetClip(id, clip)
       \/ \E z \in TZs : BoxSetZ(id, z)
       \/ \E b \in TBounds : BoxSetBounds(id, b)
       \/ \E f \in TFlagSets : BoxSetFlags(id, f)

\* C38: a call of set_z_index, set_flags, set_local_clip, set_local_bounds or
\* set_local_transform changes no result of hit_test_point or intersect_rect;
\* the effect on queries appears only after the next commit.
C38_SettersVisibleAtCommit ==
    [][SetterStep => SameAnswers(tree, tree')]_vars

\* The call that took a parent id p which is not alive has returned, no node
\* in p's slot has child among its children, and the links are consistent
StaleParentHarmless(t1, p, child) ==
    /\ t1.failed = "none"
    /\ SlotFilled(t1, p) => child \notin Range(NodeAt(t1, p).children)
    /\ LinksConsistent(t1)

\* C39: insert(Some(p), ..) and reparent(id, Some(p)) with a NodeId p that
\* is not alive return without failure and never attach the child to the
\* node that now occupies p's slot; after such a reparent id is under its
\* previous parent or a root, and the parent and children links agree.
C39_StaleParentsHarmless ==
    [][\A p \in DeadIds(tree) :
          /\ (\E b \in TBounds : BoxInsert(Some(p), b)) =>
                \A child \in ids' \ ids : StaleParentHarmless(tree', p, child)
          /\ \A id \in ids :
                (is_alive(tree, id) /\ BoxReparent(id, Some(p))) =>
                   /\ StaleParentHarmless(tree', p, id)
                   /\ is_alive(tree', id)
                   /\ NodeAt(tree', id).parent \in {None, NodeAt(tree, id).parent}]_vars

\* C40: handle_with_hits returns a dispatch sequence for every hit list and
\* every capture and scope setting, also when the selected hit, or the last
\* hit on the captured node, comes with an empty provided path.
C40_RouterNeverFails == rout.kind # "idle" => rout.kind = "ok"

====
